---- MODULE Spec2Model ----
(***************************************************************************)
(* Model of the Sortino trading engine (src/python_engine).                *)
(*                                                                         *)
(* Part 1: the model version registry of model_manager.py, the table       *)
(* model_versions, written by save_model_version and rollback_model, each  *)
(* in one database transaction of its own connection, and read by          *)
(* get_latest_model.  The database is PostgreSQL through psycopg2 with its *)
(* default isolation (READ COMMITTED): a statement sees the rows committed *)
(* when it starts, an UPDATE waits for the row locks of other open         *)
(* transactions and then updates the newest version of the rows it had     *)
(* selected, and nothing a transaction wrote is visible to others before   *)
(* its commit.                                                             *)
(*                                                                         *)
(* Part 2: the reward functions applied by the execution loop (trade.py),  *)
(* the training wrapper (train.py) and the reconciliation sweep            *)
(* (retrain.py).                                                           *)
(*                                                                         *)
(* Part 3: the experience and trade stores, written by the execution loop  *)
(* (run_analysis_cycle of trade.py) and by the reconciliation sweep        *)
(* (update_incomplete_experiences of retrain.py).                          *)
(*                                                                         *)
(* Part 4: the retrain orchestrator (main of retrain.py): which training   *)
(* it chooses and the version it saves.                                    *)
(*                                                                         *)
(* Part 5: a training that initializes no model (full_retrain of           *)
(* retrain.py, train_model of train.py).                                   *)
(*                                                                         *)
(* Part 6: the daemon of trade.py: main() with its hot reload, and         *)
(* run_analysis_cycle over several tickers and accounts, with the failures *)
(* of the brokerage and of the database.                                   *)
(*                                                                         *)
(* Part 7: the /predict endpoint of model_api.py.                          *)
(***************************************************************************)
EXTENDS Integers, Sequences, FiniteSets, TLC

VARIABLES
    model_versions,  \* the committed rows of table model_versions, in commit order
    files,           \* version numbers n whose artifact dow30_model_v<n>.zip is on disk
    default_file,    \* TRUE iff dow30_model.zip is on disk
    clock,           \* number of save transactions begun; NOW() of the next one
    pc,              \* pc[p]: where writer p stands inside its call
    tx,              \* tx[p]: the open transaction of writer p
    result,          \* what the call that returned last returned, and how many
                     \* rows were active when it began (0, 1, 2 = several)
    before,          \* before[p]: the committed rows when writer p's open call began
    latest,          \* what the last get_latest_model call found
    rw,              \* the reward computations of part 2
    training_experiences,  \* the committed rows of table training_experiences
    trades,          \* the committed rows of table trades
    position,        \* the broker's position in the ticker, for the account
    daemon,          \* where the execution loop stands inside its cycle
    now,             \* the time, in days
    retrain,         \* where the retrain orchestrator (main of retrain.py) stands
    sweep,           \* the update_incomplete_experiences call of a retrain process:
                     \* its rows, its uncommitted writes, its count; quiet = no
                     \* store operation of the loop since the last call returned;
                     \* seen = the number of experiences when it selected
    main,            \* where main() of trade.py stands, and its in-memory model
    cyc,             \* where run_analysis_cycle stands: its ticker, its account
    broker,          \* the brokerage: buying power, positions, orders received
    api              \* the model API service: its models, the request in hand

regVars == <<model_versions, files, default_file, clock, pc, tx, result, before, latest>>
expVars == <<training_experiences, trades, position, daemon, sweep>>
orchVars == <<now, retrain>>
loopVars == <<main, cyc, broker>>
vars == <<model_versions, files, default_file, clock, pc, tx, result, before, latest, rw,
          training_experiences, trades, position, daemon, sweep, now, retrain,
          main, cyc, broker, api>>

----------------------------------------------------------------------------
(* Bounds *)

\* save_model_version calls begun in one behaviour
MaxSaves == 2

\* the processes that write the registry: the retrain job and a second
\* process (train.py, or an operator running rollback_model)
Writers == {"w1", "w2"}

\* retrain.py --strategy / train.py --reward
Strategies == {"sortino", "upside"}

\* version numbers a caller may ask rollback_model for (one more than can exist)
Versions == 1 .. (MaxSaves + 1)

----------------------------------------------------------------------------
(* Rows and queries *)

RowIds(tbl) == DOMAIN tbl

\* WHERE is_active = TRUE
ActiveRows(tbl) == {i \in RowIds(tbl) : tbl[i].is_active}

ActiveOf(tbl, s) == {i \in ActiveRows(tbl) : tbl[i].strategy = s}

\* MAX(version_number), 0 when the table is empty (COALESCE)
MaxVersion(tbl) ==
    IF tbl = <<>> THEN 0
    ELSE LET vs == {tbl[i].version_number : i \in RowIds(tbl)}
         IN  CHOOSE m \in vs : \A v \in vs : v <= m

\* SELECT COALESCE(MAX(version_number), 0) + 1 FROM model_versions
NextVersion(tbl) == MaxVersion(tbl) + 1

\* SELECT id FROM model_versions WHERE version_number = N
RowsOfVersion(tbl, n) == {i \in RowIds(tbl) : tbl[i].version_number = n}

\* the row the INSERT of save_model_version writes: is_active is TRUE,
\* created_at defaults to the time the transaction began; the strategy is
\* the one the caller trained the model for (it reaches the row in notes)
NewRow(v, s, t) ==
    [version_number |-> v, strategy |-> s, is_active |-> TRUE, created_at |-> t]

NoUpdate == [i \in {} |-> FALSE]

DeactivateNothing(targets) == NoUpdate

\* UPDATE model_versions SET is_active = FALSE, on the rows the statement selected
DeactivateAll(targets) == [i \in targets |-> FALSE]

ActivateAlso(upd, targets) ==
    [i \in (DOMAIN upd) \cup targets |-> TRUE]

\* UPDATE model_versions SET is_active = TRUE WHERE version_number = N,
\* on top of what the transaction has already written
Activate(upd, targets) ==
    [i \in (DOMAIN upd) \cup targets |-> IF i \in targets THEN TRUE ELSE upd[i]]

\* the committed table after a transaction's writes are applied
Apply(tbl, upd, ins) ==
    [i \in RowIds(tbl) |->
        IF i \in DOMAIN upd THEN [tbl[i] EXCEPT !.is_active = upd[i]] ELSE tbl[i]]
    \o ins

\* conn.commit()
Commit(tbl, t) == Apply(tbl, t.upd, t.ins)

Autocommit(tbl, t) == Apply(tbl, t.upd, <<>>)

\* what other connections see after a statement of an open transaction:
\* psycopg2.connect leaves autocommit off, so nothing before the commit
AfterStatement(tbl, t) == tbl

RollbackKeepsWrites(tbl, t) == Apply(tbl, t.upd, <<>>)

\* conn.rollback(): the transaction's writes are dropped
Rollback(tbl, t) == tbl

\* row locks: the rows an open transaction has updated
Locked(p) == DOMAIN tx[p].upd

LockedByOther(p) == UNION {Locked(q) : q \in Writers \ {p}}

\* the schema (schema.sql) keeps version_number unique: a second row of a
\* committed version_number is refused
InsertAllowed(tbl, v) == RowsOfVersion(tbl, v) = {}

\* ... and the INSERT waits for an open transaction that inserted the same one
InsertWaits(p) ==
    \E q \in Writers \ {p} :
        \E k \in DOMAIN tx[q].ins : tx[q].ins[k].version_number = tx[p].version

\* 0, 1 or 2 (several)
Several(S) == IF Cardinality(S) >= 2 THEN 2 ELSE Cardinality(S)

NoTx == [version |-> 0, strategy |-> "none", created_at |-> 0,
         targets |-> {}, upd |-> NoUpdate, ins |-> <<>>]

NoResult == [op |-> "none", ok |-> FALSE, version |-> 0, prior |-> 0]

NoLatest == [kind |-> "unread", version |-> 0, read |-> FALSE, active |-> FALSE,
             inflight |-> "no"]

\* a reward not computed yet (SQL NULL)
Null == <<0, 0>>

NoReward == [strategy |-> "none", buy_price |-> 0, sell_price |-> 0, quantity |-> 0,
             inline |-> Null, wrapper |-> Null, sweep |-> Null]

\* the broker holds no position
NoPosition == [side |-> "none", qty |-> 0, opener |-> 0]

\* the execution loop between two decisions
DaemonIdle == [pc |-> "idle", experience_id |-> 0, action |-> "none", cycles |-> 0]

\* no update_incomplete_experiences call has run
SweepIdle == [pc |-> "idle", strategy |-> "none", todo |-> {}, upd |-> <<>>,
              updated |-> 0, runs |-> 0, quiet |-> FALSE, seen |-> 0]

\* the orchestrator before its first run
RetrainIdle == [pc |-> "idle", strategy |-> "none", training_type |-> "none", runs |-> 0]

\* main() of trade.py not started
MainIdle == [pc |-> "off", model |-> [kind |-> "none", version |-> 0],
             iterations |-> 0, faults |-> 0, interrupted |-> FALSE, due |-> FALSE,
             accounts |-> FALSE, market |-> "unfetched", sleep |-> "none"]

\* run_analysis_cycle not running
CycleIdle == [pc |-> "idle", t |-> 0, a |-> 0, action_type |-> "none",
              current_price |-> 0, experience_id |-> 0, aborted |-> FALSE,
              model |-> [kind |-> "none", version |-> 0],
              used |-> {}, visited |-> {}, skipped |-> {}, printed |-> "", n |-> 0]

\* the brokerage before the daemon is modelled
BrokerIdle == [buying_power |-> <<>>, pos |-> <<>>, orders |-> <<>>]

\* no response yet
NoResponse == [status |-> 0, error |-> "", action |-> "", price |-> 0]

\* the model API service before load_models has run: MODELS = {}
ApiIdle == [pc |-> "start", MODELS |-> {}, requests |-> 0,
            ticker |-> "", strategy |-> "", model |-> "none",
            attempt |-> 0, slept |-> <<>>, rows |-> 0, close |-> 0,
            inferences |-> 0, action_code |-> 0, response |-> NoResponse]

\* the daemon of trade.py and the model API service, untouched by parts 1 to 4
LoopUnused ==
    /\ main = MainIdle
    /\ cyc = CycleIdle
    /\ broker = BrokerIdle
    /\ api = ApiIdle

\* the stores and the orchestrator, untouched by the registry and by part 2
StoreUnused ==
    /\ now = 0
    /\ retrain = RetrainIdle
    /\ training_experiences = <<>>
    /\ trades = <<>>
    /\ position = NoPosition
    /\ daemon = DaemonIdle
    /\ sweep = SweepIdle
    /\ LoopUnused

----------------------------------------------------------------------------
(* save_model_version(model, ..., strategy = s), one step per statement *)

\* the connection is opened and SELECT COALESCE(MAX(version_number), 0) + 1
\* runs; psycopg2 begins the transaction with this first statement
SaveBegin(p, s) ==
    /\ pc[p] = "idle"
    /\ clock < MaxSaves
    /\ clock' = clock + 1
    /\ tx' = [tx EXCEPT ![p] = [NoTx EXCEPT !.version = NextVersion(model_versions),
                                            !.strategy = s,
                                            !.created_at = clock + 1]]
    /\ before' = [before EXCEPT ![p] = model_versions]
    /\ pc' = [pc EXCEPT ![p] = "sv_selected"]
    /\ UNCHANGED <<api, loopVars, model_versions, files, default_file, result, latest, rw, expVars, orchVars>>

\* UPDATE model_versions SET is_active = FALSE starts: it selects the rows
\* committed at this moment
SaveDeactivateStart(p) ==
    /\ pc[p] = "sv_selected"
    /\ tx' = [tx EXCEPT ![p].targets = RowIds(model_versions)]
    /\ pc' = [pc EXCEPT ![p] = "sv_updating"]
    /\ UNCHANGED <<api, loopVars, model_versions, files, default_file, clock, result, before, latest, rw, expVars, orchVars>>

\* the UPDATE ends once no selected row is locked by another transaction
SaveDeactivateFinish(p) ==
    /\ pc[p] = "sv_updating"
    /\ tx[p].targets \cap LockedByOther(p) = {}
    /\ tx' = [tx EXCEPT ![p].upd = DeactivateAll(tx[p].targets)]
    /\ model_versions' = AfterStatement(model_versions, tx'[p])
    /\ pc' = [pc EXCEPT ![p] = "sv_deactivated"]
    /\ UNCHANGED <<api, loopVars, files, default_file, clock, result, before, latest, rw, expVars, orchVars>>

\* model.save(model_path) writes dow30_model_v<version_number>.zip
SaveArtifact(p) ==
    /\ pc[p] = "sv_deactivated"
    /\ files' = files \cup {tx[p].version}
    /\ pc' = [pc EXCEPT ![p] = "sv_saved"]
    /\ UNCHANGED <<api, loopVars, model_versions, default_file, clock, tx, result, before, latest, rw, expVars, orchVars>>

insert_before_artifact == "sv_deactivated"

\* where the call stands when it runs its INSERT: model.save(model_path) has
\* returned
insert_after_artifact == "sv_saved"

\* get_model_performance (reads only, on a connection of its own), then
\* INSERT INTO model_versions (..., is_active, notes) VALUES (..., True, notes)
\* The INSERT waits while another open transaction holds an uncommitted row
\* of the same version_number, and raises (SaveFail) when a committed row has it.
SaveInsert(p) ==
    /\ pc[p] = insert_after_artifact
    /\ ~InsertWaits(p)
    /\ InsertAllowed(model_versions, tx[p].version)
    /\ tx' = [tx EXCEPT ![p].ins =
                 <<NewRow(tx[p].version, tx[p].strategy, tx[p].created_at)>>]
    /\ model_versions' = AfterStatement(model_versions, tx'[p])
    /\ pc' = [pc EXCEPT ![p] = "sv_inserted"]
    /\ UNCHANGED <<api, loopVars, files, default_file, clock, result, before, latest, rw, expVars, orchVars>>

\* conn.commit(); return version_number
SaveCommit(p) ==
    /\ pc[p] = "sv_inserted"
    /\ model_versions' = Commit(model_versions, tx[p])
    /\ result' = [op |-> "save", ok |-> TRUE, version |-> tx[p].version,
                  prior |-> Several(ActiveRows(before[p]))]
    /\ before' = [before EXCEPT ![p] = <<>>]
    /\ tx' = [tx EXCEPT ![p] = NoTx]
    /\ pc' = [pc EXCEPT ![p] = "idle"]
    /\ UNCHANGED <<api, loopVars, files, default_file, clock, latest, rw, expVars, orchVars>>

\* the next statement raises (the UPDATE, model.save, get_model_performance,
\* the INSERT or the commit): except Exception: conn.rollback(); return None
SaveFail(p) ==
    /\ pc[p] \in {"sv_selected", "sv_updating", "sv_deactivated", "sv_saved", "sv_inserted"}
    /\ model_versions' = Rollback(model_versions, tx[p])
    /\ result' = [op |-> "save", ok |-> FALSE, version |-> 0,
                  prior |-> Several(ActiveRows(before[p]))]
    /\ before' = [before EXCEPT ![p] = <<>>]
    /\ tx' = [tx EXCEPT ![p] = NoTx]
    /\ pc' = [pc EXCEPT ![p] = "idle"]
    /\ UNCHANGED <<api, loopVars, files, default_file, clock, latest, rw, expVars, orchVars>>

----------------------------------------------------------------------------
(* rollback_model(database_url, n), one step per statement *)

VersionFoundAlways(tbl, n) == TRUE

\* cur.fetchone() of SELECT id FROM model_versions WHERE version_number = n
VersionFound(tbl, n) == RowsOfVersion(tbl, n) # {}

\* the existence check; a missing version returns False at once
RollbackBegin(p, n) ==
    /\ pc[p] = "idle"
    /\ IF VersionFound(model_versions, n)
       THEN /\ tx' = [tx EXCEPT ![p] = [NoTx EXCEPT !.version = n]]
            /\ before' = [before EXCEPT ![p] = model_versions]
            /\ pc' = [pc EXCEPT ![p] = "rb_selected"]
            /\ UNCHANGED result
       ELSE /\ result' = [op |-> "rollback", ok |-> FALSE, version |-> n,
                             prior |-> Several(ActiveRows(model_versions))]
            /\ UNCHANGED <<tx, pc, before>>
    /\ UNCHANGED <<api, loopVars, model_versions, files, default_file, clock, latest, rw, expVars, orchVars>>

\* UPDATE model_versions SET is_active = FALSE starts
RollbackDeactivateStart(p) ==
    /\ pc[p] = "rb_selected"
    /\ tx' = [tx EXCEPT ![p].targets = RowIds(model_versions)]
    /\ pc' = [pc EXCEPT ![p] = "rb_updating"]
    /\ UNCHANGED <<api, loopVars, model_versions, files, default_file, clock, result, before, latest, rw, expVars, orchVars>>

\* ... and ends once no selected row is locked by another transaction
RollbackDeactivateFinish(p) ==
    /\ pc[p] = "rb_updating"
    /\ tx[p].targets \cap LockedByOther(p) = {}
    /\ tx' = [tx EXCEPT ![p].upd = DeactivateAll(tx[p].targets)]
    /\ model_versions' = AfterStatement(model_versions, tx'[p])
    /\ pc' = [pc EXCEPT ![p] = "rb_deactivated"]
    /\ UNCHANGED <<api, loopVars, files, default_file, clock, result, before, latest, rw, expVars, orchVars>>

\* UPDATE model_versions SET is_active = TRUE WHERE version_number = n
RollbackActivate(p) ==
    /\ pc[p] = "rb_deactivated"
    /\ LET targets == RowsOfVersion(model_versions, tx[p].version)
       IN  /\ targets \cap LockedByOther(p) = {}
           /\ tx' = [tx EXCEPT ![p].upd = Activate(tx[p].upd, targets)]
    /\ model_versions' = AfterStatement(model_versions, tx'[p])
    /\ pc' = [pc EXCEPT ![p] = "rb_activated"]
    /\ UNCHANGED <<api, loopVars, files, default_file, clock, result, before, latest, rw, expVars, orchVars>>

\* conn.commit(); return True
RollbackCommit(p) ==
    /\ pc[p] = "rb_activated"
    /\ model_versions' = Commit(model_versions, tx[p])
    /\ result' = [op |-> "rollback", ok |-> TRUE, version |-> tx[p].version,
                  prior |-> Several(ActiveRows(before[p]))]
    /\ before' = [before EXCEPT ![p] = <<>>]
    /\ tx' = [tx EXCEPT ![p] = NoTx]
    /\ pc' = [pc EXCEPT ![p] = "idle"]
    /\ UNCHANGED <<api, loopVars, files, default_file, clock, latest, rw, expVars, orchVars>>

\* a statement or the commit raises: conn.rollback(); return False
RollbackFail(p) ==
    /\ pc[p] \in {"rb_selected", "rb_updating", "rb_deactivated", "rb_activated"}
    /\ model_versions' = Rollback(model_versions, tx[p])
    /\ result' = [op |-> "rollback", ok |-> FALSE, version |-> tx[p].version,
                  prior |-> Several(ActiveRows(before[p]))]
    /\ before' = [before EXCEPT ![p] = <<>>]
    /\ tx' = [tx EXCEPT ![p] = NoTx]
    /\ pc' = [pc EXCEPT ![p] = "idle"]
    /\ UNCHANGED <<api, loopVars, files, default_file, clock, latest, rw, expVars, orchVars>>

----------------------------------------------------------------------------
(* get_latest_model, and the disk *)

\* WHERE is_active = TRUE ORDER BY created_at DESC LIMIT 1; 0 when no row
LatestActive(tbl) ==
    IF ActiveRows(tbl) = {} THEN 0
    ELSE CHOOSE i \in ActiveRows(tbl) :
            \A j \in ActiveRows(tbl) : tbl[j].created_at <= tbl[i].created_at

ResolveDefaultFirst(tbl, row, fs, dflt) ==
    IF dflt THEN [kind |-> "default", version |-> 0]
    ELSE IF row # 0 /\ tbl[row].version_number \in fs
         THEN [kind |-> "version", version |-> tbl[row].version_number]
         ELSE [kind |-> "none", version |-> 0]

\* the fallback chain: the row's file, then dow30_model.zip, then None
Resolve(tbl, row, fs, dflt) ==
    IF row # 0 /\ tbl[row].version_number \in fs
    THEN [kind |-> "version", version |-> tbl[row].version_number]
    ELSE IF dflt THEN [kind |-> "default", version |-> 0]
         ELSE [kind |-> "none", version |-> 0]

\* Is a writer inside a call that began with an active version committed,
\* and has that call already run its UPDATE ... SET is_active = FALSE?
CallInProgress ==
    LET open == {p \in Writers : pc[p] # "idle" /\ ActiveRows(before[p]) # {}}
    IN  IF open = {} THEN "no"
        ELSE IF \E p \in open : \E i \in DOMAIN tx[p].upd : ~tx[p].upd[i]
             THEN "deactivated"
             ELSE "started"

\* get_latest_model(database_url): one SELECT on a connection of its own
\* (it sees committed rows only), then the file checks.  avail = FALSE is
\* the psycopg2.Error branch (model_versions cannot be read).
GetLatestModel(avail) ==
    /\ LET row == IF avail THEN LatestActive(model_versions) ELSE 0
           r   == Resolve(model_versions, row, files, default_file)
       IN  latest' = [kind |-> r.kind, version |-> r.version, read |-> avail,
                      active |-> row # 0, inflight |-> CallInProgress]
    /\ UNCHANGED <<api, loopVars, model_versions, files, default_file, clock, pc, tx, result, before, rw, expVars, orchVars>>

\* an artifact file is lost from the model directory (the case line 95 warns of)
RemoveArtifact(n) ==
    /\ n \in files
    /\ files' = files \ {n}
    /\ UNCHANGED <<api, loopVars, model_versions, default_file, clock, pc, tx, result, before, latest, rw, expVars, orchVars>>

----------------------------------------------------------------------------
(* Specifications of the registry *)

\* after setup_db.py: an empty table, no versioned artifact, dow30_model.zip
\* present or not
Init ==
    /\ model_versions = <<>>
    /\ files = {}
    /\ default_file \in BOOLEAN
    /\ clock = 0
    /\ pc = [p \in Writers |-> "idle"]
    /\ tx = [p \in Writers |-> NoTx]
    /\ result = NoResult
    /\ before = [p \in Writers |-> <<>>]
    /\ latest = NoLatest
    /\ rw = NoReward
    /\ StoreUnused

\* no other writer is inside a call
Alone(p) == \A q \in Writers \ {p} : pc[q] = "idle"

\* independent writing processes, any interleaving of their statements
Next ==
    \/ \E p \in Writers, s \in Strategies : SaveBegin(p, s)
    \/ \E p \in Writers : SaveDeactivateStart(p)
    \/ \E p \in Writers : SaveDeactivateFinish(p)
    \/ \E p \in Writers : SaveArtifact(p)
    \/ \E p \in Writers : SaveInsert(p)
    \/ \E p \in Writers : SaveCommit(p)
    \/ \E p \in Writers : SaveFail(p)
    \/ \E p \in Writers, n \in Versions : RollbackBegin(p, n)
    \/ \E p \in Writers : RollbackDeactivateStart(p)
    \/ \E p \in Writers : RollbackDeactivateFinish(p)
    \/ \E p \in Writers : RollbackActivate(p)
    \/ \E p \in Writers : RollbackCommit(p)
    \/ \E p \in Writers : RollbackFail(p)

Spec == Init /\ [][Next]_vars

\* the calls executed one at a time, by either process
NextSeq ==
    \/ \E p \in Writers, s \in Strategies : Alone(p) /\ SaveBegin(p, s)
    \/ \E p \in Writers : Alone(p) /\ SaveDeactivateStart(p)
    \/ \E p \in Writers : Alone(p) /\ SaveDeactivateFinish(p)
    \/ \E p \in Writers : Alone(p) /\ SaveArtifact(p)
    \/ \E p \in Writers : Alone(p) /\ SaveInsert(p)
    \/ \E p \in Writers : Alone(p) /\ SaveCommit(p)
    \/ \E p \in Writers : Alone(p) /\ SaveFail(p)
    \/ \E p \in Writers, n \in Versions : Alone(p) /\ RollbackBegin(p, n)
    \/ \E p \in Writers : Alone(p) /\ RollbackDeactivateStart(p)
    \/ \E p \in Writers : Alone(p) /\ RollbackDeactivateFinish(p)
    \/ \E p \in Writers : Alone(p) /\ RollbackActivate(p)
    \/ \E p \in Writers : Alone(p) /\ RollbackCommit(p)
    \/ \E p \in Writers : Alone(p) /\ RollbackFail(p)

SeqSpec == Init /\ [][NextSeq]_vars

\* the registries of up to MaxSaves versions, numbered as save_model_version
\* numbers them, whose is_active flags are in any state: none, one or
\* several active (what a race of two writers or an edit by hand leaves)
Registries ==
    UNION {[1 .. n -> [version_number : Versions, strategy : Strategies,
                       is_active : BOOLEAN, created_at : Versions]] : n \in 0 .. MaxSaves}

InitAnyFlags ==
    /\ model_versions \in {tbl \in Registries :
            \A i \in DOMAIN tbl : tbl[i].version_number = i /\ tbl[i].created_at = i}
    /\ files = {model_versions[i].version_number : i \in DOMAIN model_versions}
    /\ default_file \in BOOLEAN
    /\ clock = Len(model_versions)
    /\ pc = [p \in Writers |-> "idle"]
    /\ tx = [p \in Writers |-> NoTx]
    /\ result = NoResult
    /\ before = [p \in Writers |-> <<>>]
    /\ latest = NoLatest
    /\ rw = NoReward
    /\ StoreUnused

AnyFlagsSpec == InitAnyFlags /\ [][NextSeq]_vars

\* one writing process, and a reader (the daemon or the serving process) that
\* calls get_latest_model at any moment, between any two of its statements
NextRead ==
    \/ \E s \in Strategies : SaveBegin("w1", s)
    \/ SaveDeactivateStart("w1")
    \/ SaveDeactivateFinish("w1")
    \/ SaveArtifact("w1")
    \/ SaveInsert("w1")
    \/ SaveCommit("w1")
    \/ SaveFail("w1")
    \/ \E n \in Versions : RollbackBegin("w1", n)
    \/ RollbackDeactivateStart("w1")
    \/ RollbackDeactivateFinish("w1")
    \/ RollbackActivate("w1")
    \/ RollbackCommit("w1")
    \/ RollbackFail("w1")
    \/ \E avail \in BOOLEAN : GetLatestModel(avail)
    \/ \E n \in Versions : RemoveArtifact(n)

ReadSpec == Init /\ [][NextRead]_vars

----------------------------------------------------------------------------
(* Properties of the registry *)

\* C1: after any sequence of save_model_version and rollback_model calls
\* executed one at a time, whether they succeed or fail, no strategy has more
\* than one row with is_active = TRUE.
C1_AtMostOneActivePerStrategy ==
    \A s \in Strategies : Cardinality(ActiveOf(model_versions, s)) <= 1

\* two versions of one strategy saved, then a rollback to the first returned True
C1_TwoSavesThenRollback ==
    /\ Len(model_versions) = 2
    /\ model_versions[1].strategy = model_versions[2].strategy
    /\ result = [op |-> "rollback", ok |-> TRUE, version |-> 1, prior |-> 1]

\* C2: when rollback_model(N) has returned True, the strategy of version N
\* has exactly one active row and it is version N, whether the registry held
\* no, one or several active rows before the call.
C2_RollbackLeavesExactlyN ==
    (result.op = "rollback" /\ result.ok) =>
        \E i \in RowIds(model_versions) :
            /\ model_versions[i].version_number = result.version
            /\ ActiveOf(model_versions, model_versions[i].strategy) = {i}

\* a rollback returned True on a registry that had several active rows
C2_RollbackFromSeveralActive ==
    /\ result.op = "rollback"
    /\ result.ok
    /\ result.prior = 2
    /\ Cardinality(ActiveRows(model_versions)) = 1

\* C3: under any interleaving of two processes that each run
\* save_model_version or rollback_model in a transaction of their own, the
\* committed table never has two active versions of one strategy.
C3_NoTwoActiveCommitted ==
    \A i, j \in ActiveRows(model_versions) :
        model_versions[i].strategy = model_versions[j].strategy => i = j

\* C4: when an active version was committed before a save_model_version or
\* rollback_model call began, a get_latest_model that reads the registry
\* while the call is in progress finds an active row.
C4_ReaderSeesActive ==
    (latest.read /\ latest.inflight # "no") => latest.active

\* the reader read after the call's UPDATE ... SET is_active = FALSE and
\* before its commit
C4_ReadAfterDeactivate ==
    /\ latest.read
    /\ latest.inflight = "deactivated"
    /\ latest.active

\* C5: rollback_model for a version_number that no row has goes no further
\* than its existence check: it returns False and the step changes no row.
C5_MissingVersionRefused ==
    [][ /\ \A p \in Writers :
              (pc[p] = "idle" /\ pc'[p] = "rb_selected")
                  => RowsOfVersion(model_versions, tx'[p].version) # {}
        /\ (/\ result' # result
            /\ result'.op = "rollback"
            /\ RowsOfVersion(model_versions, result'.version) = {})
               => (~result'.ok /\ model_versions' = model_versions) ]_vars

\* rollback_model returned False for a version that does not exist, on a
\* registry with an active version
C5_RefusedWithActiveVersion ==
    /\ result.op = "rollback"
    /\ ~result.ok
    /\ RowsOfVersion(model_versions, result.version) = {}
    /\ result.prior = 1
    /\ Cardinality(ActiveRows(model_versions)) = 1

\* C6: when save_model_version fails at any step after it began, it returns
\* None and the committed registry is the one before the call: the version
\* that was active is active, and there is no new row.
C6_FailedSaveLeavesRegistry ==
    [][ \A p \in Writers :
            (/\ pc[p] \in {"sv_selected", "sv_updating", "sv_deactivated",
                           "sv_saved", "sv_inserted"}
             /\ pc'[p] = "idle"
             /\ ~result'.ok)
                => (/\ result'.op = "save"
                    /\ result'.version = 0
                    /\ model_versions' = before[p]) ]_vars

\* a save failed after it wrote its artifact, on a registry with an active version
C6_FailedAfterArtifact ==
    /\ result = [op |-> "save", ok |-> FALSE, version |-> 0, prior |-> 1]
    /\ Cardinality(ActiveRows(model_versions)) = 1
    /\ \E n \in files : RowsOfVersion(model_versions, n) = {}

\* C7: a save_model_version for strategy S that returns its version leaves
\* the active rows of every other strategy active.
C7_OtherStrategiesKeepActive ==
    [][ \A p \in Writers :
            (pc[p] = "sv_inserted" /\ pc'[p] = "idle" /\ result'.ok)
                => \A i \in ActiveRows(model_versions) :
                       model_versions[i].strategy # tx[p].strategy
                           => model_versions'[i].is_active ]_vars

\* C8: the version number save_model_version takes for strategy S is one
\* more than the highest version_number of the rows of S, 1 when S has none.
C8_NextVersionPerStrategy ==
    [][ \A p \in Writers :
            (pc[p] = "idle" /\ pc'[p] = "sv_selected")
                => LET mine == {i \in RowIds(model_versions) :
                                   model_versions[i].strategy = tx'[p].strategy}
                       vs   == {model_versions[i].version_number : i \in mine}
                   IN  /\ tx'[p].version \notin vs
                       /\ \A v \in vs : v < tx'[p].version
                       /\ tx'[p].version = 1 \/ (tx'[p].version - 1) \in vs ]_vars

\* C9: get_latest_model resolves in a fixed order: the artifact of the active
\* row when the registry gives one and its file is on disk; else the default
\* artifact when it is on disk; else None.  A registry that cannot be read
\* counts as one without an entry.
C9_ResolutionOrder ==
    [][ latest' # latest =>
          LET act    == ActiveRows(model_versions)
              newest == {i \in act : \A j \in act :
                            model_versions[j].created_at <= model_versions[i].created_at}
              usable == {i \in newest : latest'.read /\ model_versions[i].version_number \in files}
          IN  \/ /\ usable # {}
                 /\ latest'.kind = "version"
                 /\ \E i \in usable : latest'.version = model_versions[i].version_number
              \/ /\ usable = {}
                 /\ default_file
                 /\ latest'.kind = "default"
              \/ /\ usable = {}
                 /\ ~default_file
                 /\ latest'.kind = "none" ]_vars

\* the registry gave an active row whose file was gone, and the default
\* artifact was taken
C9_FellBackToDefault ==
    /\ latest.read
    /\ latest.active
    /\ latest.kind = "default"

----------------------------------------------------------------------------
(* Part 2: the reward functions.  A return or a reward is an exact fraction *)
(* <<numerator, denominator>> with a positive denominator.                  *)

RatEq(a, b) == a[1] * b[2] = b[1] * a[2]

\* (sell_price - buy_price) / buy_price
ReturnPct(buy_price, sell_price) == <<sell_price - buy_price, buy_price>>

DOWNSIDE_PENALTY_FACTOR == 2

DOWNSIDE_SQUARED == TRUE

\* -0.001
OPPORTUNITY_COST_PENALTY == <<-1, 1000>>

sortino_reward_scaled(raw) == <<raw[1] * DOWNSIDE_PENALTY_FACTOR, raw[2]>>

sortino_reward_linear(raw) ==
    IF raw[1] = 0 THEN OPPORTUNITY_COST_PENALTY
    ELSE IF raw[1] > 0 THEN raw
    ELSE <<raw[1] * DOWNSIDE_PENALTY_FACTOR, raw[2]>>

sortino_reward_flat_free(raw) ==
    IF raw[1] >= 0 THEN raw
    ELSE <<-(DOWNSIDE_PENALTY_FACTOR * raw[1] * raw[1]), raw[2] * raw[2]>>

\* _sortino_reward(raw_reward)
sortino_reward(raw) ==
    IF raw[1] = 0 THEN OPPORTUNITY_COST_PENALTY
    ELSE IF raw[1] > 0 THEN raw
    ELSE IF DOWNSIDE_SQUARED
         THEN <<-(DOWNSIDE_PENALTY_FACTOR * raw[1] * raw[1]), raw[2] * raw[2]>>
         ELSE <<raw[1] * DOWNSIDE_PENALTY_FACTOR, raw[2]>>

\* the reward of the "upside" strategy: model_manager.py of src/ does not
\* define it; the symmetric shaping the specification names (the raw return)
upside_reward(raw) == raw

\* get_reward_function(strategy), imported by retrain.py and train.py from
\* model_manager; not defined in src/: selects the shaping by strategy key
get_reward_function(strategy, raw) ==
    IF strategy = "sortino" THEN sortino_reward(raw) ELSE upside_reward(raw)

calculate_trade_reward_scaled(buy_price, sell_price, quantity) ==
    IF buy_price <= 0 \/ quantity <= 0 THEN <<0, 1>>
    ELSE LET r == sortino_reward(ReturnPct(buy_price, sell_price))
         IN  <<r[1] * quantity, r[2]>>

\* calculate_trade_reward(buy_price, sell_price, quantity) of the daemon
calculate_trade_reward(buy_price, sell_price, quantity) ==
    IF buy_price <= 0 \/ quantity <= 0 THEN <<0, 1>>
    ELSE sortino_reward(ReturnPct(buy_price, sell_price))

\* GymnasiumWrapper.step of train.py / retrain.py: reward_fn(raw_reward),
\* reward_fn = get_reward_function(strategy)
wrapper_reward(strategy, raw) == get_reward_function(strategy, raw)

sweep_reward_never(strategy, buy_price, sell_price, quantity) == Null

\* update_incomplete_experiences(conn, reward_fn): reward_fn(return_pct) for
\* a row whose prices and quantity are set
sweep_reward(strategy, buy_price, sell_price, quantity) ==
    IF buy_price # 0 /\ sell_price # 0 /\ quantity # 0
    THEN get_reward_function(strategy, ReturnPct(buy_price, sell_price))
    ELSE Null

\* entry prices, exit prices and quantities of a closed long position
BuyPrices == {50, 100}
SellPrices == {45, 50, 90, 100, 110}
Quantities == {5, 10}

\* one closed position of an experience that the retrain job of rw.strategy
\* will consume
InitReward ==
    /\ model_versions = <<>>
    /\ files = {}
    /\ default_file = FALSE
    /\ clock = 0
    /\ pc = [p \in Writers |-> "idle"]
    /\ tx = [p \in Writers |-> NoTx]
    /\ result = NoResult
    /\ before = [p \in Writers |-> <<>>]
    /\ latest = NoLatest
    /\ rw \in [strategy : Strategies, buy_price : BuyPrices, sell_price : SellPrices,
                quantity : Quantities, inline : {Null}, wrapper : {Null}, sweep : {Null}]
    /\ StoreUnused

\* run_analysis_cycle closes the long: reward = calculate_trade_reward(...),
\* update_experience_reward(conn, buy_experience_id, reward, True)
InlineBackfill ==
    /\ rw.inline = Null
    /\ rw' = [rw EXCEPT !.inline =
                 calculate_trade_reward(rw.buy_price, rw.sell_price, rw.quantity)]
    /\ UNCHANGED <<api, loopVars, regVars, expVars, orchVars>>

\* the training environment steps with the same raw return
WrapperStep ==
    /\ rw.wrapper = Null
    /\ rw' = [rw EXCEPT !.wrapper =
                 wrapper_reward(rw.strategy, ReturnPct(rw.buy_price, rw.sell_price))]
    /\ UNCHANGED <<api, loopVars, regVars, expVars, orchVars>>

\* the reconciliation sweep of retrain.py --strategy rw.strategy
SweepBackfill ==
    /\ rw.sweep = Null
    /\ rw' = [rw EXCEPT !.sweep =
                 sweep_reward(rw.strategy, rw.buy_price, rw.sell_price, rw.quantity)]
    /\ UNCHANGED <<api, loopVars, regVars, expVars, orchVars>>

NextReward == InlineBackfill \/ WrapperStep \/ SweepBackfill

RewardSpec == InitReward /\ [][NextReward]_vars

----------------------------------------------------------------------------
(* Properties of the reward functions *)

\* C10: for either strategy and every raw return, the reward the execution
\* loop stores when it closes the position equals the reward of the training
\* wrapper and the reward of the reconciliation sweep of that strategy.
C10_OneRewardPerStrategy ==
    (rw.inline # Null /\ rw.wrapper # Null /\ rw.sweep # Null) =>
        (RatEq(rw.inline, rw.wrapper) /\ RatEq(rw.inline, rw.sweep))

\* the raw return of the closed position
RawReturn == ReturnPct(rw.buy_price, rw.sell_price)

\* C11 (as stated): for every raw return >= 0 the sortino reward, as the
\* execution loop computes it, is the raw return unchanged.
C11_NonNegativeUnchanged ==
    (rw.inline # Null /\ RawReturn[1] >= 0) => RatEq(rw.inline, RawReturn)

\* C11 (amended): for every raw return > 0 the sortino reward is the raw
\* return unchanged.
C11_PositiveUnchanged ==
    (rw.inline # Null /\ RawReturn[1] > 0) => RatEq(rw.inline, RawReturn)

\* a gain of 10 percent was rewarded
C11_GainRewarded ==
    /\ rw.inline # Null
    /\ rw.buy_price = 100
    /\ rw.sell_price = 110
    /\ RatEq(rw.inline, <<1, 10>>)

\* C12: for every raw return < 0 the sortino reward with the default
\* constants is -(2.0 * raw_return^2).
C12_NegativeSquared ==
    (rw.inline # Null /\ RawReturn[1] < 0) =>
        RatEq(rw.inline, <<-(2 * RawReturn[1] * RawReturn[1]), RawReturn[2] * RawReturn[2]>>)

\* a loss of 10 percent was rewarded with -0.02
C12_LossRewarded ==
    /\ rw.inline # Null
    /\ rw.buy_price = 100
    /\ rw.sell_price = 90
    /\ RatEq(rw.inline, <<-2, 100>>)

\* C13: for a raw return of 0 the sortino reward is the opportunity cost
\* constant -0.001, not 0.
C13_FlatCostsOpportunity ==
    (rw.inline # Null /\ RawReturn[1] = 0) =>
        (RatEq(rw.inline, <<-1, 1000>>) /\ rw.inline[1] # 0)

\* a position closed at its entry price was rewarded
C13_FlatRewarded ==
    /\ rw.inline # Null
    /\ rw.buy_price = rw.sell_price
    /\ rw.inline[1] < 0

----------------------------------------------------------------------------
(* Part 3: the experience and trade stores, one ticker and one account.   *)
(* A row's id is its index; 0 stands for SQL NULL in an id column.        *)

\* decisions the execution loop takes in one behaviour
MaxCycles == 2

\* update_incomplete_experiences calls in one behaviour
MaxSweeps == 2

\* closing prices of the ticker
Prices == {90, 100, 110}

Min(a, b) == IF a <= b THEN a ELSE b

\* collect_experience(conn, ticker, account_id, observation, action, trade_id):
\* INSERT ... (action, trade_id, is_completed) VALUES (..., trade_id is not None)
collect_experience(tbl, action, trade_id) ==
    Append(tbl, [action |-> action, trade_id |-> trade_id,
                 is_completed |-> trade_id # 0, reward |-> Null])

\* UPDATE training_experiences SET trade_id = %s WHERE id = %s
link_trade(tbl, experience_id, trade_id) ==
    [e \in DOMAIN tbl |->
        IF e = experience_id THEN [tbl[e] EXCEPT !.trade_id = trade_id] ELSE tbl[e]]

update_experience_reward_only(tbl, experience_id, reward, is_completed) ==
    [e \in DOMAIN tbl |->
        IF e = experience_id THEN [tbl[e] EXCEPT !.reward = reward] ELSE tbl[e]]

\* update_experience_reward(conn, experience_id, reward, is_completed):
\* UPDATE training_experiences SET reward = %s, is_completed = %s WHERE id = %s
update_experience_reward(tbl, experience_id, reward, is_completed) ==
    [e \in DOMAIN tbl |->
        IF e = experience_id
        THEN [tbl[e] EXCEPT !.reward = reward, !.is_completed = is_completed]
        ELSE tbl[e]]

\* INSERT INTO trades (..., action, price, quantity, ..., pnl, ..., experience_id)
\* VALUES (..., 0.0, ...): pnl is 0.0 and sell_trade_id is NULL at first
NewTrade(action, price, quantity, experience_id) ==
    [action |-> action, price |-> price, quantity |-> quantity, pnl |-> 0,
     sell_trade_id |-> 0, experience_id |-> experience_id]

\* SELECT id ... FROM trades WHERE action = %s AND sell_trade_id IS NULL
\* ORDER BY timestamp DESC LIMIT 1; 0 when no row
LatestUnlinked(tbl, action) ==
    LET open == {i \in DOMAIN tbl : tbl[i].action = action /\ tbl[i].sell_trade_id = 0}
    IN  IF open = {} THEN 0 ELSE CHOOSE i \in open : \A j \in open : j <= i

\* UPDATE trades SET pnl = %s, sell_trade_id = %s WHERE id = %s
close_trade(tbl, id, pnl, sell_trade_id) ==
    [i \in DOMAIN tbl |->
        IF i = id THEN [tbl[i] EXCEPT !.pnl = pnl, !.sell_trade_id = sell_trade_id]
        ELSE tbl[i]]

\* the row lock of an experience the sweep has updated and not committed
LockedBySweep(e) == e \in DOMAIN sweep.upd

\* a store operation of the execution loop has happened since the last sweep
Disturbed == [sweep EXCEPT !.quiet = FALSE]

----------------------------------------------------------------------------
(* run_analysis_cycle, for the ticker and the account *)

\* action = "BUY" if int(action[0]) == 1 else "SELL"; the experience is
\* collected before the trade, with trade_id = None; ok = FALSE is the
\* except branch of collect_experience (it returns None)
CollectExperience(action, ok) ==
    /\ daemon.pc = "idle"
    /\ daemon.cycles < MaxCycles
    /\ IF ok
       THEN /\ training_experiences' = collect_experience(training_experiences, action, 0)
            /\ sweep' = Disturbed
       ELSE UNCHANGED <<training_experiences, sweep>>
    /\ daemon' = [pc |-> "collected",
                  experience_id |-> IF ok THEN Len(training_experiences) + 1 ELSE 0,
                  action |-> action, cycles |-> daemon.cycles + 1]
    /\ UNCHANGED <<api, loopVars, regVars, rw, orchVars, trades, position>>

\* no order: the broker call fails, the size is 0, the position is already
\* on the side of the signal, or a SELL signal without position
SkipTrade ==
    /\ daemon.pc = "collected"
    /\ daemon' = [daemon EXCEPT !.pc = "idle", !.experience_id = 0, !.action = "none"]
    /\ UNCHANGED <<api, loopVars, regVars, rw, orchVars, training_experiences, trades, position, sweep>>

\* BUY signal, no position: the order, the BUY trade row, the experience's
\* trade_id, conn.commit()
OpenLong(price, qty) ==
    /\ daemon.pc = "collected"
    /\ daemon.action = "BUY"
    /\ position.side = "none"
    /\ trades' = Append(trades, NewTrade("BUY", price, qty, daemon.experience_id))
    /\ training_experiences' =
           link_trade(training_experiences, daemon.experience_id, Len(trades) + 1)
    /\ position' = [side |-> "long", qty |-> qty, opener |-> Len(trades) + 1]
    /\ daemon' = [daemon EXCEPT !.pc = "idle", !.experience_id = 0, !.action = "none"]
    /\ sweep' = Disturbed
    /\ UNCHANGED <<api, loopVars, regVars, rw, orchVars>>

\* SELL signal, no position, allow_shorting: the order, the SELL trade row,
\* the experience's trade_id, conn.commit()
OpenShort(price, qty) ==
    /\ daemon.pc = "collected"
    /\ daemon.action = "SELL"
    /\ position.side = "none"
    /\ trades' = Append(trades, NewTrade("SELL", price, qty, daemon.experience_id))
    /\ training_experiences' =
           link_trade(training_experiences, daemon.experience_id, Len(trades) + 1)
    /\ position' = [side |-> "short", qty |-> qty, opener |-> Len(trades) + 1]
    /\ daemon' = [daemon EXCEPT !.pc = "idle", !.experience_id = 0, !.action = "none"]
    /\ sweep' = Disturbed
    /\ UNCHANGED <<api, loopVars, regVars, rw, orchVars>>

\* SELL signal, long position: the order for pos.qty, the SELL trade row,
\* the latest BUY row without sell_trade_id, its pnl and link, the reward of
\* its experience (update_experience_reward commits), conn.commit()
CloseLong(current_price) ==
    /\ daemon.pc = "collected"
    /\ daemon.action = "SELL"
    /\ position.side = "long"
    /\ LET close_qty     == position.qty
           sell_trade_id == Len(trades) + 1
           inserted      == Append(trades, NewTrade("SELL", current_price, close_qty,
                                                    daemon.experience_id))
           buy_trade_id  == LatestUnlinked(inserted, "BUY")
       IN  IF buy_trade_id = 0
           THEN /\ trades' = inserted
                /\ UNCHANGED training_experiences
           ELSE LET buy_price == trades[buy_trade_id].price
                    buy_qty   == trades[buy_trade_id].quantity
                    buy_experience_id == trades[buy_trade_id].experience_id
                    pnl    == (current_price - buy_price) * Min(close_qty, buy_qty)
                    reward == calculate_trade_reward(buy_price, current_price,
                                                     Min(close_qty, buy_qty))
                IN  /\ trades' = close_trade(inserted, buy_trade_id, pnl, sell_trade_id)
                    /\ IF buy_experience_id # 0
                       THEN /\ ~LockedBySweep(buy_experience_id)
                            /\ training_experiences' =
                                   update_experience_reward(training_experiences,
                                       buy_experience_id, reward, TRUE)
                       ELSE UNCHANGED training_experiences
    /\ position' = NoPosition
    /\ daemon' = [daemon EXCEPT !.pc = "idle", !.experience_id = 0, !.action = "none"]
    /\ sweep' = Disturbed
    /\ UNCHANGED <<api, loopVars, regVars, rw, orchVars>>

\* BUY signal, short position: the order for abs(pos.qty), the BUY trade row,
\* the latest SELL row without sell_trade_id, its pnl and link, the reward
\* _sortino_reward((sell_price - current_price) / sell_price) of its experience
CoverShort(current_price) ==
    /\ daemon.pc = "collected"
    /\ daemon.action = "BUY"
    /\ position.side = "short"
    /\ LET close_qty == position.qty
           trade_id  == Len(trades) + 1
           inserted  == Append(trades, NewTrade("BUY", current_price, close_qty,
                                                daemon.experience_id))
           sell_trade_id == LatestUnlinked(inserted, "SELL")
       IN  IF sell_trade_id = 0
           THEN /\ trades' = inserted
                /\ UNCHANGED training_experiences
           ELSE LET sell_price == trades[sell_trade_id].price
                    sell_qty   == trades[sell_trade_id].quantity
                    sell_exp   == trades[sell_trade_id].experience_id
                    pnl    == (sell_price - current_price) * Min(close_qty, sell_qty)
                    reward == sortino_reward(<<sell_price - current_price, sell_price>>)
                IN  /\ trades' = close_trade(inserted, sell_trade_id, pnl, trade_id)
                    /\ IF sell_exp # 0
                       THEN /\ ~LockedBySweep(sell_exp)
                            /\ training_experiences' =
                                   update_experience_reward(training_experiences,
                                       sell_exp, reward, TRUE)
                       ELSE UNCHANGED training_experiences
    /\ position' = NoPosition
    /\ daemon' = [daemon EXCEPT !.pc = "idle", !.experience_id = 0, !.action = "none"]
    /\ sweep' = Disturbed
    /\ UNCHANGED <<api, loopVars, regVars, rw, orchVars>>

\* the position is closed at the broker but update_experience_reward raises:
\* its except branch runs conn.rollback(), which drops the trade row and the
\* link of the same transaction as well
CloseBackfillFails ==
    /\ daemon.pc = "collected"
    /\ \/ /\ daemon.action = "SELL" /\ position.side = "long"
          /\ LatestUnlinked(trades, "BUY") # 0
          /\ trades[LatestUnlinked(trades, "BUY")].experience_id # 0
       \/ /\ daemon.action = "BUY" /\ position.side = "short"
          /\ LatestUnlinked(trades, "SELL") # 0
          /\ trades[LatestUnlinked(trades, "SELL")].experience_id # 0
    /\ position' = NoPosition
    /\ daemon' = [daemon EXCEPT !.pc = "idle", !.experience_id = 0, !.action = "none"]
    /\ UNCHANGED <<api, loopVars, regVars, rw, orchVars, training_experiences, trades, sweep>>

----------------------------------------------------------------------------
(* update_incomplete_experiences(conn, reward_fn), on the connection of a   *)
(* retrain process, reward_fn = get_reward_function(strategy)               *)

EligibleAll(te, tr) ==
    {e \in DOMAIN te :
        /\ te[e].trade_id \in DOMAIN tr
        /\ tr[te[e].trade_id].sell_trade_id \in DOMAIN tr}

\* FROM training_experiences te JOIN trades t_buy ON te.trade_id = t_buy.id
\* LEFT JOIN trades t_sell ON t_buy.sell_trade_id = t_sell.id
\* WHERE te.is_completed = FALSE AND t_sell.id IS NOT NULL
\* AND t_buy.pnl IS NOT NULL (pnl is never NULL: every INSERT gives 0.0)
Eligible(te, tr) ==
    {e \in DOMAIN te :
        /\ ~te[e].is_completed
        /\ te[e].trade_id \in DOMAIN tr
        /\ tr[te[e].trade_id].sell_trade_id \in DOMAIN tr}

\* the columns the SELECT returns for experience e
SweepRow(te, tr, e) ==
    [exp_id |-> e,
     buy_price |-> tr[te[e].trade_id].price,
     sell_price |-> tr[tr[te[e].trade_id].sell_trade_id].price,
     quantity |-> tr[te[e].trade_id].quantity]

\* cur.execute(SELECT ...); rows = cur.fetchall(); updated = 0
SweepSelect(s) ==
    /\ sweep.pc = "idle"
    /\ sweep.runs < MaxSweeps
    /\ sweep' = [sweep EXCEPT
                    !.pc = "updating",
                    !.strategy = s,
                    !.todo = {SweepRow(training_experiences, trades, e) :
                                 e \in Eligible(training_experiences, trades)},
                    !.upd = <<>>,
                    !.updated = 0,
                    !.runs = sweep.runs + 1,
                    !.seen = Len(training_experiences)]
    /\ UNCHANGED <<api, loopVars, regVars, rw, orchVars, training_experiences, trades, position, daemon>>

\* one turn of the loop over rows: if buy_price and sell_price and quantity,
\* UPDATE training_experiences SET reward = %s, is_completed = TRUE WHERE id = %s
SweepUpdate ==
    /\ sweep.pc = "updating"
    /\ sweep.todo # {}
    /\ LET row == CHOOSE r \in sweep.todo : \A q \in sweep.todo : r.exp_id <= q.exp_id
           reward == sweep_reward(sweep.strategy, row.buy_price, row.sell_price,
                                  row.quantity)
       IN  sweep' = [sweep EXCEPT
                        !.todo = sweep.todo \ {row},
                        !.upd = IF reward = Null THEN sweep.upd
                                ELSE (row.exp_id :> reward) @@ sweep.upd,
                        !.updated = IF reward = Null THEN sweep.updated
                                    ELSE sweep.updated + 1]
    /\ UNCHANGED <<api, loopVars, regVars, rw, orchVars, training_experiences, trades, position, daemon>>

\* conn.commit(); return updated
SweepCommit ==
    /\ sweep.pc = "updating"
    /\ sweep.todo = {}
    /\ training_experiences' =
           [e \in DOMAIN training_experiences |->
               IF e \in DOMAIN sweep.upd
               THEN [training_experiences[e] EXCEPT !.reward = sweep.upd[e],
                                                    !.is_completed = TRUE]
               ELSE training_experiences[e]]
    /\ sweep' = [sweep EXCEPT !.pc = "idle", !.upd = <<>>, !.quiet = TRUE]
    /\ UNCHANGED <<api, loopVars, regVars, rw, orchVars, trades, position, daemon>>

----------------------------------------------------------------------------
(* Specification of the stores *)

\* the entry price and the quantities of a trade pair left by an earlier run
LegacyPrices == {100}
LegacyQuantities == {0, 5}

\* the stores at the start: empty, or holding one long that was opened and
\* closed, with its trades linked, whose experience never got its reward
\* (the case update_incomplete_experiences is written for)
LegacyStores ==
    {[te |-> <<>>, tr |-> <<>>]} \cup
    {[te |-> <<[action |-> "BUY", trade_id |-> 1, is_completed |-> FALSE, reward |-> Null],
               [action |-> "SELL", trade_id |-> 0, is_completed |-> FALSE, reward |-> Null]>>,
      tr |-> <<[action |-> "BUY", price |-> b, quantity |-> q,
                pnl |-> (p - b) * q, sell_trade_id |-> 2, experience_id |-> 1],
               [action |-> "SELL", price |-> p, quantity |-> q,
                pnl |-> 0, sell_trade_id |-> 0, experience_id |-> 2]>>] :
        b \in LegacyPrices, p \in Prices, q \in LegacyQuantities}

InitStore ==
    /\ model_versions = <<>>
    /\ files = {}
    /\ default_file = FALSE
    /\ clock = 0
    /\ pc = [p \in Writers |-> "idle"]
    /\ tx = [p \in Writers |-> NoTx]
    /\ result = NoResult
    /\ before = [p \in Writers |-> <<>>]
    /\ latest = NoLatest
    /\ rw = NoReward
    /\ \E st \in LegacyStores :
          /\ training_experiences = st.te
          /\ trades = st.tr
    /\ position = NoPosition
    /\ daemon = DaemonIdle
    /\ sweep = SweepIdle
    /\ now = 0
    /\ retrain = RetrainIdle
    /\ LoopUnused

\* the execution loop and a retrain process, any interleaving
NextStore ==
    \/ \E action \in {"BUY", "SELL"}, ok \in BOOLEAN : CollectExperience(action, ok)
    \/ SkipTrade
    \/ \E price \in Prices, qty \in Quantities : OpenLong(price, qty)
    \/ \E price \in Prices, qty \in Quantities : OpenShort(price, qty)
    \/ \E price \in Prices : CloseLong(price)
    \/ \E price \in Prices : CoverShort(price)
    \/ CloseBackfillFails
    \/ \E s \in Strategies : SweepSelect(s)
    \/ SweepUpdate
    \/ SweepCommit

StoreSpec == InitStore /\ [][NextStore]_vars

----------------------------------------------------------------------------
(* Properties of the stores *)

C15_SecondSweepChangesNothing ==
    [][ (sweep.pc = "updating" /\ sweep'.pc = "idle" /\ sweep.quiet)
            => (/\ sweep'.updated = 0
                /\ training_experiences' = training_experiences
                /\ trades' = trades) ]_vars

\* two calls in a row: the first completed the experience left by an
\* earlier run, the second returned 0
C15_TwoSweepsInARow ==
    /\ daemon.cycles = 0
    /\ sweep.runs = 2
    /\ sweep.pc = "idle"
    /\ sweep.updated = 0
    /\ Len(training_experiences) = 2
    /\ training_experiences[1].is_completed

\* C16: whatever the execution loop inserts or backfills while the sweep
\* runs, the sweep's write never changes the reward of an experience that is
\* completed when the write takes effect.
C16_SweepSparesCompleted ==
    [][ (sweep.pc = "updating" /\ sweep'.pc = "idle")
            => \A e \in DOMAIN training_experiences :
                   training_experiences[e].is_completed
                       => training_experiences'[e].reward = training_experiences[e].reward ]_vars

\* the loop inserted two experiences and backfilled one inline between the
\* sweep's SELECT and its commit, and the sweep holds a write
C16_LoopRanDuringSweep ==
    /\ sweep.pc = "updating"
    /\ DOMAIN sweep.upd # {}
    /\ sweep.seen = 2
    /\ Len(training_experiences) = 4
    /\ training_experiences[3].is_completed

\* C17: when the loop closes a long position whose opening BUY trade is
\* recorded at price p_in for quantity q, at exit price p_out, the PnL it
\* stores is (p_out - p_in) * q, and the experience of the opening BUY gets
\* the reward sortino_reward((p_out - p_in) / p_in) and is completed.
C17_CloseLongPnlAndReward ==
    [][ (/\ daemon.pc = "collected"
         /\ daemon.action = "SELL"
         /\ position.side = "long"
         /\ Len(trades') = Len(trades) + 1)
            => LET b     == position.opener
                   p_in  == trades[b].price
                   q     == trades[b].quantity
                   p_out == trades'[Len(trades')].price
               IN  /\ trades'[b].pnl = (p_out - p_in) * q
                   /\ trades'[b].sell_trade_id = Len(trades')
                   /\ \A e \in DOMAIN training_experiences :
                          training_experiences[e].trade_id = b
                              => /\ training_experiences'[e].is_completed
                                 /\ training_experiences'[e].reward # Null
                                 /\ RatEq(training_experiences'[e].reward,
                                          IF p_out = p_in THEN <<-1, 1000>>
                                          ELSE IF p_out > p_in THEN <<p_out - p_in, p_in>>
                                          ELSE <<-(2 * (p_out - p_in) * (p_out - p_in)),
                                                 p_in * p_in>>) ]_vars

\* bought 10 at 100, sold at 110: PnL 100, reward 0.10 on the BUY's experience
C17_GainScenario ==
    \E b \in DOMAIN trades :
        /\ b > 2
        /\ trades[b] = [action |-> "BUY", price |-> 100, quantity |-> 10, pnl |-> 100,
                        sell_trade_id |-> b + 1, experience_id |-> trades[b].experience_id]
        /\ trades[b + 1].price = 110
        /\ trades[b].experience_id # 0
        /\ training_experiences[trades[b].experience_id].is_completed
        /\ RatEq(training_experiences[trades[b].experience_id].reward, <<1, 10>>)

----------------------------------------------------------------------------
(* Part 4: the retrain orchestrator, main() of retrain.py, run by one      *)
(* scheduled process.  Time is counted in days; created_at of a version    *)
(* and the timestamp of an experience are the day they were written.      *)

\* runs of retrain.py begun in one behaviour
MaxRetrains == 2

\* days that pass in one behaviour
MaxDays == 8

\* experiences the execution loop completes in one behaviour of the orchestrator
MaxExperiences == 1

\* return days_since >= 7
FULL_RETRAIN_DAYS == 7

\* SELECT ... FROM training_experiences WHERE is_completed = TRUE AND
\* reward IS NOT NULL: every completed experience, whenever it was written
load_experiences_from_db(te) ==
    {e \in DOMAIN te : te[e].is_completed /\ te[e].reward # Null}

\* should_full_retrain(conn, strategy): no full_retrain version of the
\* strategy yet, or the latest one is at least 7 days old
should_full_retrain(tbl, strategy, t) ==
    LET full == {i \in RowIds(tbl) :
                    tbl[i].training_type = "full_retrain" /\ tbl[i].strategy = strategy}
    IN  IF full = {} THEN TRUE
        ELSE LET last == CHOOSE i \in full :
                             \A j \in full : tbl[j].created_at <= tbl[i].created_at
             IN  t - tbl[last].created_at >= FULL_RETRAIN_DAYS

\* update_incomplete_experiences(conn, reward_fn) as one call: the table
\* after its commit
Reconciled(te, tr, strategy) ==
    [e \in DOMAIN te |->
        IF e \in Eligible(te, tr)
        THEN LET row == SweepRow(te, tr, e)
                 reward == sweep_reward(strategy, row.buy_price, row.sell_price,
                                        row.quantity)
             IN  IF reward = Null THEN te[e]
                 ELSE [te[e] EXCEPT !.reward = reward, !.is_completed = TRUE]
        ELSE te[e]]

\* main: model = get_latest_model(...); None gives "initial"; else
\* should_full_retrain gives "full_retrain"; else a non-empty
\* load_experiences_from_db gives "online"; else return ("none")
choose_training_type(tbl, fs, dflt, te, strategy, t) ==
    IF Resolve(tbl, LatestActive(tbl), fs, dflt).kind = "none" THEN "initial"
    ELSE IF should_full_retrain(tbl, strategy, t) THEN "full_retrain"
    ELSE IF load_experiences_from_db(te) # {} THEN "online"
    ELSE "none"

table_before_sweep(te, reconciled) == te

\* the table main reads after update_incomplete_experiences(conn, reward_fn)
\* has returned: the sweep is the first statement of the run after the
\* schema check, its commit precedes get_latest_model
table_after_sweep(te, reconciled) == reconciled

\* retrain.py --strategy s: the sweep, get_latest_model and the choice of
\* the training; without training it returns at once
RetrainDecide(s) ==
    /\ retrain.pc = "idle"
    /\ retrain.runs < MaxRetrains
    /\ training_experiences' = Reconciled(training_experiences, trades, s)
    /\ LET training_type == choose_training_type(model_versions, files, default_file,
                                 table_after_sweep(training_experiences,
                                                   training_experiences'), s, now)
       IN  retrain' = [pc |-> IF training_type = "none" THEN "idle" ELSE "training",
                       strategy |-> s,
                       training_type |-> training_type,
                       runs |-> retrain.runs + 1]
    /\ UNCHANGED <<api, loopVars, regVars, rw, trades, position, daemon, sweep, now>>

\* the training is done: save_model_version(model, ..., training_type, ...,
\* strategy) returns the version
RetrainSave ==
    /\ retrain.pc = "training"
    /\ LET version_number == NextVersion(model_versions)
           row == [version_number |-> version_number, strategy |-> retrain.strategy,
                   is_active |-> TRUE, created_at |-> now,
                   training_type |-> retrain.training_type]
       IN  /\ model_versions' =
                  Apply(model_versions, DeactivateAll(RowIds(model_versions)), <<row>>)
           /\ files' = files \cup {version_number}
    /\ retrain' = [retrain EXCEPT !.pc = "idle"]
    /\ UNCHANGED <<api, loopVars, default_file, clock, pc, tx, result, before, latest, rw, expVars, now>>

\* the training raises (sys.exit(1)) or save_model_version returns None
RetrainFails ==
    /\ retrain.pc = "training"
    /\ retrain' = [retrain EXCEPT !.pc = "idle"]
    /\ UNCHANGED <<api, loopVars, regVars, rw, expVars, now>>

\* a day passes
Tick ==
    /\ now < MaxDays
    /\ now' = now + 1
    /\ UNCHANGED <<api, loopVars, regVars, rw, expVars, retrain>>

\* the execution loop records a decision and, when its position is closed,
\* completes it with a reward
LoopCompletesExperience ==
    /\ Len(training_experiences) < MaxExperiences
    /\ training_experiences' =
           Append(training_experiences,
                  [action |-> "BUY", trade_id |-> 0, is_completed |-> TRUE,
                   reward |-> <<1, 10>>, timestamp |-> now])
    /\ UNCHANGED <<api, loopVars, regVars, rw, trades, position, daemon, sweep, orchVars>>

\* the model directory is lost (a fresh deployment): no versioned artifact
\* and no dow30_model.zip is on disk any more
LoseModelDir ==
    /\ files # {} \/ default_file
    /\ files' = {}
    /\ default_file' = FALSE
    /\ UNCHANGED <<api, loopVars, model_versions, clock, pc, tx, result, before, latest, rw,
                   expVars, orchVars>>

\* an empty registry, dow30_model.zip on disk or not
InitRetrain ==
    /\ model_versions = <<>>
    /\ files = {}
    /\ default_file \in BOOLEAN
    /\ clock = 0
    /\ pc = [p \in Writers |-> "idle"]
    /\ tx = [p \in Writers |-> NoTx]
    /\ result = NoResult
    /\ before = [p \in Writers |-> <<>>]
    /\ latest = NoLatest
    /\ rw = NoReward
    /\ StoreUnused

NextRetrain ==
    \/ \E s \in Strategies : RetrainDecide(s)
    \/ RetrainSave
    \/ RetrainFails
    \/ Tick
    \/ LoopCompletesExperience
    \/ LoseModelDir

RetrainSpec == InitRetrain /\ [][NextRetrain]_vars

----------------------------------------------------------------------------
(* Properties of the orchestrator                                          *)

\* the step of a run of retrain.py that chooses its training
Decides == retrain.pc = "idle" /\ retrain'.runs = retrain.runs + 1

\* the full_retrain versions of a strategy
FullRetrains(tbl, s) ==
    {i \in RowIds(tbl) : tbl[i].training_type = "full_retrain" /\ tbl[i].strategy = s}

\* C18: a run of the orchestrator for a strategy that has no active version
\* in the registry chooses training_type "initial", whether or not the
\* default artifact dow30_model.zip is on disk
C18_NoActiveVersionMeansInitial ==
    [][ (Decides /\ ActiveOf(model_versions, retrain'.strategy) = {})
            => retrain'.training_type = "initial" ]_vars

\* C19: when the strategy has an active version, the run chooses
\* full_retrain if at least 7 days have passed since the creation of the
\* strategy's most recent full_retrain version and does not choose it if
\* fewer have; so two consecutive full_retrain versions of a strategy are
\* never less than 7 days apart
C19_WeeklyFullRetrain ==
    [][ /\ (Decides /\ ActiveOf(model_versions, retrain'.strategy) # {}
                    /\ FullRetrains(model_versions, retrain'.strategy) # {})
            => LET s == retrain'.strategy
                   last == CHOOSE i \in FullRetrains(model_versions, s) :
                               \A j \in FullRetrains(model_versions, s) :
                                   model_versions[j].created_at
                                       <= model_versions[i].created_at
               IN  (retrain'.training_type = "full_retrain")
                       <=> (now - model_versions[last].created_at >= 7)
        /\ \A s \in Strategies :
               \A i, j \in FullRetrains(model_versions', s) :
                   i # j => \/ model_versions'[j].created_at
                                 - model_versions'[i].created_at >= 7
                            \/ model_versions'[i].created_at
                                 - model_versions'[j].created_at >= 7 ]_vars

\* C20: on the online path (an active version exists and the last
\* full_retrain of the strategy is less than 7 days old), when no completed
\* experience was added since the active version was created, the run
\* returns without training and the registry stays as it was (checked
\* where the artifact of the active version is on disk)
C20_NoNewExperienceSkips ==
    [][ (/\ Decides
         /\ ActiveOf(model_versions, retrain'.strategy) # {}
         /\ FullRetrains(model_versions, retrain'.strategy) # {}
         /\ ~ should_full_retrain(model_versions, retrain'.strategy, now)
         /\ \A i \in ActiveOf(model_versions, retrain'.strategy) :
                model_versions[i].version_number \in files
         /\ \A e \in DOMAIN training_experiences' :
                \A i \in ActiveOf(model_versions, retrain'.strategy) :
                    training_experiences'[e].is_completed
                        => training_experiences'[e].timestamp
                               < model_versions[i].created_at)
            => /\ retrain'.training_type = "none"
               /\ retrain'.pc = "idle"
               /\ model_versions' = model_versions ]_vars

----------------------------------------------------------------------------
(* Part 5: a training in which no ticker trains, so that the model is      *)
(* never initialized (model = None after the loop over DOW_30).            *)

\* full_retrain(...) returns None: every ticker was skipped or raised, and
\* online_learning_update(None, ...) catches the AttributeError of
\* model.set_env for each ticker and returns None as well.  The online path
\* trains the loaded model, which is never None.
TrainingInitializesNothing ==
    /\ retrain.pc = "training"
    /\ retrain.training_type \in {"initial", "full_retrain"}
    /\ retrain' = [retrain EXCEPT !.pc = "untrained"]
    /\ UNCHANGED <<api, loopVars, regVars, rw, expVars, now>>

\* the transaction of save_model_version(None, ...) when model.save raises:
\* the version is selected and every row is deactivated, nothing is inserted
UntrainedTx(tbl, s, t) ==
    [NoTx EXCEPT !.version = NextVersion(tbl), !.strategy = s, !.created_at = t,
                 !.targets = RowIds(tbl), !.upd = DeactivateAll(RowIds(tbl))]

\* main() goes on to save_model_version(model = None, ...): the SELECT, the
\* UPDATE ... SET is_active = FALSE, then model.save raises AttributeError;
\* except Exception: conn.rollback(); return None; main prints the error
SaveUntrained ==
    /\ retrain.pc = "untrained"
    /\ LET t == UntrainedTx(model_versions, retrain.strategy, now)
       IN  model_versions' = Rollback(AfterStatement(model_versions, t), t)
    /\ result' = [op |-> "save", ok |-> FALSE, version |-> 0,
                  prior |-> Several(ActiveRows(model_versions))]
    /\ retrain' = [retrain EXCEPT !.pc = "idle"]
    /\ UNCHANGED <<api, loopVars, files, default_file, clock, pc, tx, before, latest, rw,
                   expVars, now>>

train_model_saves_anyway(initialized) == TRUE

\* train_model: if model: model.save(save_path); save_model_version(...)
train_model_saves(initialized) == initialized

\* python train.py --reward s: the model is saved to dow30_<s>_model.zip and
\* as a version of training_type "initial" when it was initialized; else
\* "FAILURE: Model was never initialized." and nothing is written
TrainModel(s, initialized) ==
    /\ retrain.pc = "idle"
    /\ IF train_model_saves(initialized)
       THEN /\ clock < MaxSaves
            /\ clock' = clock + 1
            /\ LET version_number == NextVersion(model_versions)
                   row == [version_number |-> version_number, strategy |-> s,
                           is_active |-> TRUE, created_at |-> now,
                           training_type |-> "initial"]
               IN  /\ model_versions' =
                          Apply(model_versions, DeactivateAll(RowIds(model_versions)),
                                <<row>>)
                   /\ files' = files \cup {version_number}
                   /\ result' = [op |-> "train", ok |-> initialized,
                                 version |-> version_number,
                                 prior |-> Several(ActiveRows(model_versions))]
       ELSE /\ result' = [op |-> "train", ok |-> FALSE, version |-> 0,
                          prior |-> Several(ActiveRows(model_versions))]
            /\ UNCHANGED <<model_versions, files, clock>>
    /\ UNCHANGED <<api, loopVars, default_file, pc, tx, before, latest, rw, expVars, orchVars>>

\* retrain.py and train.py, run one after the other by the scheduler and by
\* an operator, all within one day
NextTrain ==
    \/ \E s \in Strategies : RetrainDecide(s)
    \/ RetrainSave
    \/ RetrainFails
    \/ TrainingInitializesNothing
    \/ SaveUntrained
    \/ \E s \in Strategies, initialized \in BOOLEAN : TrainModel(s, initialized)
    \/ LoopCompletesExperience

TrainSpec == InitRetrain /\ [][NextTrain]_vars

----------------------------------------------------------------------------
(* Properties of a training that initializes no model *)

\* C21: when training fails totally (the model is never initialized), the
\* orchestrator and train.py save no new version, and the versions that were
\* active stay the active ones
C21_TotalFailureSavesNothing ==
    [][ (\/ retrain.pc = "untrained" /\ retrain'.pc = "idle"
         \/ result' # result /\ result'.op = "train" /\ ~result'.ok)
            => /\ Len(model_versions') = Len(model_versions)
               /\ ActiveRows(model_versions') = ActiveRows(model_versions)
               /\ MaxVersion(model_versions') = MaxVersion(model_versions)
               /\ files' = files ]_vars

\* a full retrain initialized no model while a version was active
C21_UntrainedWithActiveVersion ==
    /\ result.op = "save"
    /\ ~result.ok
    /\ result.prior = 1
    /\ retrain.training_type = "full_retrain"
    /\ retrain.pc = "idle"
    /\ ActiveRows(model_versions) # {}

----------------------------------------------------------------------------
(* Part 6: the daemon of trade.py.  main() loads a model and loops: one    *)
(* iteration connects, fetches the accounts and the clock, reloads the     *)
(* model when an hour has passed, runs run_analysis_cycle and sleeps.      *)
(* run_analysis_cycle goes through the tickers and, for each, through the  *)
(* accounts.  The rows of training_experiences and trades carry their      *)
(* ticker and account_id here; the timestamp of an experience is the       *)
(* number of the cycle that wrote it.  A position is a signed number of    *)
(* shares: positive long, negative short, 0 none.                          *)

\* iterations of the while loop of main() begun in one behaviour
MaxIterations == 2

\* deviations of the environment in one behaviour: a call that raises, a
\* ticker without data, a position lookup that fails, an order not filled
MaxFaults == 1

\* for ticker in DOW_30: the first two tickers
DOW_30 == <<"AXP", "AMGN">>

\* fetch_accounts: (id, ..., allow_shorting, max_position_size), the size in
\* percent of the portfolio value
Accounts ==
    <<[id |-> 1, allow_shorting |-> TRUE, max_pos |-> 40],
      [id |-> 2, allow_shorting |-> FALSE, max_pos |-> 40]>>

\* df["Close"].iloc[-1]
ClosePrices == {100}

\* acct.portfolio_value, and acct.buying_power when the daemon starts
PortfolioValue == 1000
InitialBuyingPower == 500

\* the ticker/account pairs, by their indices
Pairs == (1 .. Len(DOW_30)) \X (1 .. Len(Accounts))

\* max_trade_value = portfolio_value * max_pos; trade_value =
\* min(max_trade_value, buying_power); qty = max(0, int(trade_value / current_price))
position_size(portfolio_value, max_pos, buying_power, current_price) ==
    LET max_trade_value == (portfolio_value * max_pos) \div 100
        trade_value     == Min(max_trade_value, buying_power)
        qty             == trade_value \div current_price
    IN  IF qty > 0 THEN qty ELSE 0

Abs(x) == IF x < 0 THEN -x ELSE x

get_position_none(b, pair, lookup_ok) == 0

\* get_position_or_none(api, symbol): the position, or None (0) when
\* api.get_position raises, which it also does when there is no position
get_position_or_none(b, pair, lookup_ok) == IF lookup_ok THEN b.pos[pair] ELSE 0

\* api.submit_order(symbol, qty, side, type="market", ...): the brokerage
\* takes the order; filled, it moves the position and the buying power
submit_order(b, n, pair, side, qty, price, filled) ==
    LET old == b.pos[pair]
        new == IF ~filled THEN old
               ELSE IF side = "buy" THEN old + qty ELSE old - qty
        bp  == b.buying_power[pair[2]] - (Abs(new) - Abs(old)) * price
    IN  [buying_power |-> [b.buying_power EXCEPT ![pair[2]] = bp],
         pos |-> [b.pos EXCEPT ![pair] = new],
         orders |-> Append(b.orders, [pair |-> pair, side |-> side, qty |-> qty,
                                      n |-> n])]

\* the experience row of collect_experience(conn, ticker, acc_id, obs,
\* action[0], trade_id=None), with its ticker, account and timestamp
collect_experience_of(tbl, pair, action, n) ==
    Append(tbl, collect_experience(<<>>, action, 0)[1]
                    @@ [ticker |-> DOW_30[pair[1]], account_id |-> Accounts[pair[2]].id,
                        timestamp |-> n])

\* INSERT INTO trades (timestamp, ticker, action, price, quantity, strategy,
\* pnl, account_id, company_name, experience_id) VALUES (NOW(), ..., 0.0, ...)
insert_trade(tbl, pair, action, price, quantity, experience_id) ==
    Append(tbl, NewTrade(action, price, quantity, experience_id)
                    @@ [ticker |-> DOW_30[pair[1]], account_id |-> Accounts[pair[2]].id])

\* SELECT id ... FROM trades WHERE ticker = %s AND action = %s AND
\* account_id = %s AND sell_trade_id IS NULL ORDER BY timestamp DESC LIMIT 1
LatestUnlinkedOf(tbl, pair, action) ==
    LET open == {i \in DOMAIN tbl :
                    /\ tbl[i].ticker = DOW_30[pair[1]]
                    /\ tbl[i].account_id = Accounts[pair[2]].id
                    /\ tbl[i].action = action
                    /\ tbl[i].sell_trade_id = 0}
    IN  IF open = {} THEN 0 ELSE CHOOSE i \in open : \A j \in open : j <= i

after_exception_raise == "stopped"

\* except Exception as e: debug_log(...); print(...); time.sleep(60)
after_exception == "sleeping"

cycle_model_reloaded(param, fresh) == IF fresh.kind = "none" THEN param ELSE fresh

\* action, _ = model.predict(obs, deterministic=True): model is the
\* parameter of run_analysis_cycle, whatever the registry holds by now
cycle_model(param, fresh) == param

----------------------------------------------------------------------------
(* main() *)

\* get_latest_model(NEON_DATABASE_URL) as the daemon sees it at this moment
FreshModel == Resolve(model_versions, LatestActive(model_versions), files, default_file)

\* model = get_latest_model(...); None and no dow30_model.zip: sys.exit(1)
MainStart ==
    /\ main.pc = "off"
    /\ main' = [main EXCEPT !.pc = IF FreshModel.kind = "none" THEN "exited" ELSE "loop",
                            !.model = FreshModel]
    /\ UNCHANGED <<api, regVars, rw, expVars, orchVars, cyc, broker>>

\* an iteration raises before the cycle: get_db, fetch_accounts,
\* sleep_until_next_open or the get_latest_model of the reload check;
\* except Exception: the handler sleeps, finally closes the connection
IterationRaises ==
    /\ main.pc = "loop"
    /\ main.iterations < MaxIterations
    /\ main.faults < MaxFaults
    /\ main' = [main EXCEPT !.pc = after_exception,
                            !.iterations = main.iterations + 1,
                            !.faults = main.faults + 1,
                            !.sleep = "interval"]
    /\ UNCHANGED <<api, regVars, rw, expVars, orchVars, cyc, broker>>

\* what get_clock_from_first_account returns: None, or a clock whose
\* is_open is False or True
ClockResults == {"none", "closed", "open"}

iteration_gate_open(accounts, clock_result) == "cycle"

\* if not accounts: sleep 60, continue; if clock is None: sleep 60, continue;
\* if not clock.is_open: sleep_until_next_open(clock), continue; else the
\* iteration goes on to the reload check and the cycle
iteration_gate(accounts, clock_result) ==
    IF ~accounts THEN "interval"
    ELSE IF clock_result = "none" THEN "interval"
    ELSE IF clock_result # "open" THEN "next_open"
    ELSE "cycle"

\* the clock is fetched only when there are accounts
market_seen(accounts, clock_result) == IF accounts THEN clock_result ELSE "unfetched"

\* no accounts, no clock, or the market is closed: sleep 60 s, or until
\* clock.next_open, then continue
IterationSkips(accounts, clock_result) ==
    /\ main.pc = "loop"
    /\ main.iterations < MaxIterations
    /\ iteration_gate(accounts, clock_result) # "cycle"
    /\ main' = [main EXCEPT !.pc = "sleeping", !.iterations = main.iterations + 1,
                            !.accounts = accounts,
                            !.market = market_seen(accounts, clock_result),
                            !.sleep = iteration_gate(accounts, clock_result)]
    /\ UNCHANGED <<api, regVars, rw, expVars, orchVars, cyc, broker>>

reload_never(model, due, new_model) == model

\* if current_time - last_model_reload >= MODEL_RELOAD_INTERVAL:
\* new_model = get_latest_model(...); if new_model is not None: model = new_model
reload_check(model, due, new_model) ==
    IF due /\ new_model.kind # "none" THEN new_model ELSE model

\* the market is open: the reload check, which sets last_model_reload to
\* the current time when it got a model (due is
\* current_time - last_model_reload >= MODEL_RELOAD_INTERVAL); then
\* run_analysis_cycle(model, conn, accounts) is entered
IterationRuns(accounts, clock_result) ==
    /\ main.pc = "loop"
    /\ main.iterations < MaxIterations
    /\ iteration_gate(accounts, clock_result) = "cycle"
    /\ LET model == reload_check(main.model, main.due, FreshModel)
       IN  /\ main' = [main EXCEPT !.pc = "cycle", !.model = model,
                                   !.iterations = main.iterations + 1,
                                   !.accounts = accounts,
                                   !.market = market_seen(accounts, clock_result),
                                   !.due = main.due /\ FreshModel.kind = "none"]
           /\ cyc' = [CycleIdle EXCEPT !.pc = "ticker", !.t = 1, !.model = model,
                                       !.n = cyc.n + 1]
    /\ UNCHANGED <<api, regVars, rw, expVars, orchVars, broker>>

\* the for loop over DOW_30 is exhausted: run_analysis_cycle returns and
\* main sleeps ANALYSIS_INTERVAL_SEC
CycleReturns ==
    /\ main.pc = "cycle"
    /\ cyc.pc = "ticker"
    /\ cyc.t > Len(DOW_30)
    /\ cyc' = [cyc EXCEPT !.pc = "idle"]
    /\ main' = [main EXCEPT !.pc = "sleeping", !.sleep = "interval"]
    /\ UNCHANGED <<api, regVars, rw, expVars, orchVars, broker>>

\* time.sleep returns; finally: conn.close(); the next iteration.  The
\* reload interval has passed since the last reload by now, or not yet
Wake(hour_passed) ==
    /\ main.pc = "sleeping"
    /\ main' = [main EXCEPT !.pc = "loop", !.due = main.due \/ hour_passed,
                            !.accounts = FALSE, !.market = "unfetched",
                            !.sleep = "none"]
    /\ UNCHANGED <<api, regVars, rw, expVars, orchVars, cyc, broker>>

\* Ctrl+C in the loop, taken between two tickers when a cycle is running:
\* except KeyboardInterrupt: break (or the interrupt leaves the handler's
\* sleep)
KeyboardInterrupt ==
    /\ main.pc \in {"loop", "sleeping"} \/ (main.pc = "cycle" /\ cyc.pc = "ticker")
    /\ main' = [main EXCEPT !.pc = "stopped", !.interrupted = TRUE,
                            !.accounts = FALSE, !.market = "unfetched",
                            !.sleep = "none"]
    /\ cyc' = [cyc EXCEPT !.pc = "idle"]
    /\ UNCHANGED <<api, regVars, rw, expVars, orchVars, broker>>

----------------------------------------------------------------------------
(* run_analysis_cycle(model, conn, accounts) *)

ThisPair == <<cyc.t, cyc.a>>

\* the message is printed; continue, or the end of the body of the loop
\* over accounts
NextAccount(message) ==
    [cyc EXCEPT !.pc = "account", !.a = cyc.a + 1, !.experience_id = 0,
                !.printed = message]

\* an exception leaves the loop over accounts for the except of the ticker:
\* debug_log, print "Skipping <ticker>: <e>", the next ticker
NextTickerAfterError ==
    [cyc EXCEPT !.pc = "ticker", !.t = cyc.t + 1, !.a = 0, !.experience_id = 0,
                !.printed = "Skipping"]

\* the top of the loop over tickers: the download, sanitize_ohlcv, the
\* prediction of the model and the last close; without data (missing
\* columns, fewer than 15 rows, or yf.download raising) the ticker is skipped
Predict(data_ok, signal, price) ==
    /\ main.pc = "cycle"
    /\ cyc.pc = "ticker"
    /\ cyc.t <= Len(DOW_30)
    /\ IF data_ok
       THEN /\ cyc' = [cyc EXCEPT !.pc = "account", !.a = 1, !.action_type = signal,
                                  !.current_price = price,
                                  !.used = cyc.used \cup {cycle_model(cyc.model, FreshModel)}]
            /\ UNCHANGED main
       ELSE /\ main.faults < MaxFaults
            /\ main' = [main EXCEPT !.faults = main.faults + 1]
            /\ cyc' = [cyc EXCEPT !.t = cyc.t + 1, !.skipped = cyc.skipped \cup {cyc.t},
                                  !.printed = "Skipping"]
    /\ UNCHANGED <<api, regVars, rw, expVars, orchVars, broker>>

\* the top of the loop over accounts: collect_experience(conn, ticker,
\* acc_id, obs, action[0], trade_id=None).  Its INSERT fails when the
\* database fails (db_ok = FALSE) or when the connection's transaction was
\* left aborted by a failed statement of an earlier ticker; its except runs
\* conn.rollback(), which ends the aborted transaction, and returns None
Collect(db_ok) ==
    /\ main.pc = "cycle"
    /\ cyc.pc = "account"
    /\ cyc.a <= Len(Accounts)
    /\ db_ok \/ main.faults < MaxFaults
    /\ LET inserted == db_ok /\ ~cyc.aborted
       IN  /\ training_experiences' =
                  IF inserted
                  THEN collect_experience_of(training_experiences, ThisPair,
                                             cyc.action_type, cyc.n)
                  ELSE training_experiences
           /\ cyc' = [cyc EXCEPT !.pc = "collected",
                                 !.experience_id =
                                     IF inserted THEN Len(training_experiences) + 1 ELSE 0,
                                 !.aborted = FALSE,
                                 !.printed = "",
                                 !.visited = cyc.visited \cup {ThisPair}]
    /\ main' = [main EXCEPT !.faults = IF db_ok THEN main.faults ELSE main.faults + 1]
    /\ UNCHANGED <<api, regVars, rw, orchVars, trades, position, daemon, sweep, broker>>

\* the loop over accounts is exhausted: cur.close(), the next ticker
AccountsDone ==
    /\ main.pc = "cycle"
    /\ cyc.pc = "account"
    /\ cyc.a > Len(Accounts)
    /\ cyc' = [cyc EXCEPT !.pc = "ticker", !.t = cyc.t + 1, !.a = 0]
    /\ UNCHANGED <<api, regVars, rw, expVars, orchVars, main, broker>>

\* qty of the account at the current price
Qty ==
    position_size(PortfolioValue, Accounts[cyc.a].max_pos,
                  broker.buying_power[cyc.a], cyc.current_price)

\* api.get_account() raises: print, continue
AccountFetchFails ==
    /\ main.pc = "cycle"
    /\ cyc.pc = "collected"
    /\ main.faults < MaxFaults
    /\ main' = [main EXCEPT !.faults = main.faults + 1]
    /\ cyc' = NextAccount("Alpaca error")
    /\ UNCHANGED <<api, regVars, rw, expVars, orchVars, broker>>

\* if qty <= 0: print "no size", continue
NoSize ==
    /\ main.pc = "cycle"
    /\ cyc.pc = "collected"
    /\ Qty <= 0
    /\ cyc' = NextAccount("no size")
    /\ UNCHANGED <<api, regVars, rw, expVars, orchVars, main, broker>>

\* "Already long, skip", "Already short, skip", or a SELL signal without
\* position on an account that may not short: nothing is done
NoOp(lookup_ok) ==
    /\ main.pc = "cycle"
    /\ cyc.pc = "collected"
    /\ Qty > 0
    /\ lookup_ok \/ (main.faults < MaxFaults /\ broker.pos[ThisPair] # 0)
    /\ LET pos == get_position_or_none(broker, ThisPair, lookup_ok)
       IN  \/ cyc.action_type = "BUY" /\ pos > 0 /\ cyc' = NextAccount("Already long")
           \/ cyc.action_type = "SELL" /\ pos < 0 /\ cyc' = NextAccount("Already short")
           \/ /\ cyc.action_type = "SELL" /\ pos = 0 /\ ~Accounts[cyc.a].allow_shorting
              /\ cyc' = NextAccount("stay cash")
    /\ main' = [main EXCEPT !.faults = IF lookup_ok THEN main.faults ELSE main.faults + 1]
    /\ UNCHANGED <<api, regVars, rw, expVars, orchVars, broker>>

\* no position is seen: a BUY signal opens a long, a SELL signal opens a
\* short when allow_shorting: submit_order for qty, the trade row, the
\* trade_id of the experience, conn.commit().  fault: "submit_order" raises
\* before anything is written; "insert" raises after the order was taken and
\* leaves the transaction aborted; "unfilled" leaves the position as it was
Open(lookup_ok, fault) ==
    /\ main.pc = "cycle"
    /\ cyc.pc = "collected"
    /\ Qty > 0
    /\ (~lookup_ok) => broker.pos[ThisPair] # 0
    /\ LET pos    == get_position_or_none(broker, ThisPair, lookup_ok)
           faults == main.faults + (IF lookup_ok THEN 0 ELSE 1)
                                 + (IF fault = "none" THEN 0 ELSE 1)
           side   == IF cyc.action_type = "BUY" THEN "buy" ELSE "sell"
           trade_id == Len(trades) + 1
       IN  /\ pos = 0
           /\ cyc.action_type = "SELL" => Accounts[cyc.a].allow_shorting
           /\ faults <= MaxFaults
           /\ main' = [main EXCEPT !.faults = faults]
           /\ broker' = IF fault = "submit_order" THEN broker
                        ELSE submit_order(broker, cyc.n, ThisPair, side, Qty,
                                          cyc.current_price, fault # "unfilled")
           /\ IF fault \in {"submit_order", "insert"}
              THEN /\ cyc' = [NextTickerAfterError EXCEPT !.aborted = (fault = "insert")]
                   /\ UNCHANGED <<trades, training_experiences>>
              ELSE /\ trades' = insert_trade(trades, ThisPair, cyc.action_type,
                                             cyc.current_price, Qty, cyc.experience_id)
                   /\ training_experiences' =
                          IF cyc.experience_id # 0
                          THEN link_trade(training_experiences, cyc.experience_id, trade_id)
                          ELSE training_experiences
                   /\ cyc' = NextAccount(IF cyc.action_type = "BUY" THEN "BUY"
                                          ELSE "SHORT")
    /\ UNCHANGED <<api, regVars, rw, orchVars, position, daemon, sweep>>

\* a position against the signal is seen: a SELL signal closes the long, a
\* BUY signal covers the short: submit_order for the whole position, the
\* trade row, the latest unlinked opening row of the pair with its pnl and
\* link, the reward of its experience, conn.commit()
Close(fault) ==
    /\ main.pc = "cycle"
    /\ cyc.pc = "collected"
    /\ Qty > 0
    /\ LET pos       == get_position_or_none(broker, ThisPair, TRUE)
           close_qty == Abs(pos)
           side      == IF cyc.action_type = "BUY" THEN "buy" ELSE "sell"
           opening   == IF cyc.action_type = "BUY" THEN "SELL" ELSE "BUY"
           trade_id  == Len(trades) + 1
           inserted  == insert_trade(trades, ThisPair, cyc.action_type,
                                     cyc.current_price, close_qty, cyc.experience_id)
           open_id   == LatestUnlinkedOf(inserted, ThisPair, opening)
       IN  /\ \/ cyc.action_type = "SELL" /\ pos > 0
              \/ cyc.action_type = "BUY" /\ pos < 0
           /\ fault = "none" \/ main.faults < MaxFaults
           /\ main' = [main EXCEPT !.faults =
                          IF fault = "none" THEN main.faults ELSE main.faults + 1]
           /\ broker' = IF fault = "submit_order" THEN broker
                        ELSE submit_order(broker, cyc.n, ThisPair, side, close_qty,
                                          cyc.current_price, fault # "unfilled")
           /\ IF fault \in {"submit_order", "insert"}
              THEN /\ cyc' = [NextTickerAfterError EXCEPT !.aborted = (fault = "insert")]
                   /\ UNCHANGED <<trades, training_experiences>>
              ELSE /\ cyc' = NextAccount(IF cyc.action_type = "SELL" THEN "Closed long"
                                          ELSE "Covered short")
                   /\ IF open_id = 0
                      THEN /\ trades' = inserted
                           /\ UNCHANGED training_experiences
                      ELSE LET open_price == trades[open_id].price
                               open_qty   == trades[open_id].quantity
                               open_exp   == trades[open_id].experience_id
                               matched    == Min(close_qty, open_qty)
                               pnl == IF opening = "BUY"
                                      THEN (cyc.current_price - open_price) * matched
                                      ELSE (open_price - cyc.current_price) * matched
                               reward ==
                                   IF opening = "BUY"
                                   THEN calculate_trade_reward(open_price,
                                            cyc.current_price, matched)
                                   ELSE sortino_reward(
                                            <<open_price - cyc.current_price, open_price>>)
                           IN  /\ trades' = close_trade(inserted, open_id, pnl, trade_id)
                               /\ training_experiences' =
                                      IF open_exp # 0
                                      THEN update_experience_reward(training_experiences,
                                               open_exp, reward, TRUE)
                                      ELSE training_experiences
    /\ UNCHANGED <<api, regVars, rw, orchVars, position, daemon, sweep>>

----------------------------------------------------------------------------
(* Specification of the daemon *)

\* dow30_model.zip is on disk, the registry and the stores are empty, the
\* accounts hold no position
InitLoop ==
    /\ model_versions = <<>>
    /\ files = {}
    /\ default_file = TRUE
    /\ clock = 0
    /\ pc = [p \in Writers |-> "idle"]
    /\ tx = [p \in Writers |-> NoTx]
    /\ result = NoResult
    /\ before = [p \in Writers |-> <<>>]
    /\ latest = NoLatest
    /\ rw = NoReward
    /\ training_experiences = <<>>
    /\ trades = <<>>
    /\ position = NoPosition
    /\ daemon = DaemonIdle
    /\ sweep = SweepIdle
    /\ now = 0
    /\ retrain = RetrainIdle
    /\ main = MainIdle
    /\ cyc = CycleIdle
    /\ broker = [buying_power |-> [a \in 1 .. Len(Accounts) |-> InitialBuyingPower],
                 pos |-> [pair \in Pairs |-> 0],
                 orders |-> <<>>]
    /\ api = ApiIdle

Faults == {"none", "submit_order", "insert", "unfilled"}

\* a training saves the first version of the registry while the daemon runs
FirstVersionSaved ==
    /\ model_versions = <<>>
    /\ TrainModel("sortino", TRUE)

\* the daemon, and a training that saves a version at any moment
\* the model directory is lost while the daemon sleeps (get_latest_model
\* looks at the disk only at start-up and at the reload check)
ModelDirLost == main.pc = "sleeping" /\ LoseModelDir

NextLoop ==
    \/ MainStart
    \/ IterationRaises
    \/ \E accounts \in BOOLEAN, clock_result \in ClockResults :
           IterationSkips(accounts, clock_result)
    \/ \E accounts \in BOOLEAN, clock_result \in ClockResults :
           IterationRuns(accounts, clock_result)
    \/ CycleReturns
    \/ \E hour_passed \in BOOLEAN : Wake(hour_passed)
    \/ KeyboardInterrupt
    \/ \E data_ok \in BOOLEAN, signal \in {"BUY", "SELL"}, price \in ClosePrices :
           Predict(data_ok, signal, price)
    \/ \E db_ok \in BOOLEAN : Collect(db_ok)
    \/ AccountsDone
    \/ AccountFetchFails
    \/ NoSize
    \/ \E lookup_ok \in BOOLEAN : NoOp(lookup_ok)
    \/ \E lookup_ok \in BOOLEAN, fault \in Faults : Open(lookup_ok, fault)
    \/ \E fault \in Faults : Close(fault)
    \/ FirstVersionSaved

LoopSpec == InitLoop /\ [][NextLoop]_vars

\* the steps of the daemon itself while nothing fails
DaemonStep ==
    \/ MainStart
    \/ IterationRuns(TRUE, "open")
    \/ CycleReturns
    \/ \E hour_passed \in BOOLEAN : Wake(hour_passed)
    \/ \E signal \in {"BUY", "SELL"}, price \in ClosePrices : Predict(TRUE, signal, price)
    \/ Collect(TRUE)
    \/ AccountsDone
    \/ NoSize
    \/ NoOp(TRUE)
    \/ Open(TRUE, "none")
    \/ Close("none")

\* the daemon while the market stays open and nobody interrupts it: its own
\* steps, iterations that raise, a first version saved to the registry, the
\* model directory lost
NextReload ==
    \/ DaemonStep
    \/ IterationRaises
    \/ FirstVersionSaved
    \/ ModelDirLost

\* the daemon keeps running: a step of its own that can be taken is taken
ReloadSpec == InitLoop /\ [][NextReload]_vars /\ WF_vars(DaemonStep)

----------------------------------------------------------------------------
(* Properties of the daemon *)

\* the step that ends the processing of the account in hand
AccountStep == main.pc = "cycle" /\ cyc.pc = "collected" /\ cyc'.pc # "collected"

\* orders the brokerage received in the step
NewOrders ==
    {broker'.orders[i] : i \in (Len(broker.orders) + 1) .. Len(broker'.orders)}

\* trade rows inserted in the step
NewTrades == {i \in DOMAIN trades' : i > Len(trades)}

\* C22: when the signal is SELL and the account holds a long position in the
\* ticker, the loop submits a sell order for the whole position and records
\* the closing trade, for every account whose account info can be fetched,
\* whatever its buying power or portfolio value (checked for the steps in
\* which no call fails)
C22_SellClosesLongWhateverBuyingPower ==
    [][ (/\ AccountStep
         /\ cyc.action_type = "SELL"
         /\ broker.pos[ThisPair] > 0
         /\ main'.faults = main.faults)
            => /\ NewOrders = {[pair |-> ThisPair, side |-> "sell",
                                qty |-> broker.pos[ThisPair], n |-> cyc.n]}
               /\ \E i \in NewTrades :
                      /\ trades'[i].action = "SELL"
                      /\ trades'[i].ticker = DOW_30[cyc.t]
                      /\ trades'[i].account_id = Accounts[cyc.a].id
                      /\ trades'[i].quantity = broker.pos[ThisPair] ]_vars

\* the three cases in which the signal asks for nothing
NoOpCase ==
    \/ cyc.action_type = "BUY" /\ broker.pos[ThisPair] > 0
    \/ cyc.action_type = "SELL" /\ broker.pos[ThisPair] < 0
    \/ /\ cyc.action_type = "SELL" /\ broker.pos[ThisPair] = 0
       /\ ~Accounts[cyc.a].allow_shorting

ExperiencesOf(pair) ==
    {e \in DOMAIN training_experiences :
        /\ training_experiences[e].timestamp = cyc.n
        /\ training_experiences[e].ticker = DOW_30[pair[1]]
        /\ training_experiences[e].account_id = Accounts[pair[2]].id}

\* run_analysis_cycle has returned and main sleeps
CycleOver == main.pc = "sleeping" /\ cyc.pc = "idle" /\ cyc.n > 0

\* C24: in every cycle, for every ticker with sufficient data and every
\* configured account, exactly one experience is recorded, before any call
\* to the brokerage for that account, whether or not a trade follows or the
\* brokerage call fails (checked for the cycles in which every
\* collect_experience call that was made succeeded)
C24_OneExperiencePerAccount ==
    (/\ CycleOver
     /\ \A pair \in cyc.visited : Cardinality(ExperiencesOf(pair)) = 1)
        => \A pair \in Pairs :
               pair[1] \notin cyc.skipped => Cardinality(ExperiencesOf(pair)) = 1

\* C25: an error raised while one account is processed (account fetch, order
\* submission, trade insert) is contained: when the cycle returns, every
\* account of every ticker with data has been processed
C25_AccountErrorContained ==
    CycleOver =>
        \A pair \in Pairs : pair[1] \notin cyc.skipped => pair \in cyc.visited

\* main is inside `while True`
InLoop(m) == m.pc \in {"loop", "cycle", "sleeping"}

\* C26: once main has loaded a model and entered the loop, no exception of
\* an iteration ends the loop: the step that leaves the loop is the keyboard
\* interrupt, a step that consumes a failure stays in the loop, and the sleep
\* is followed by the next iteration
C26_OnlyInterruptEndsLoop ==
    [][/\ (InLoop(main) /\ ~InLoop(main')) =>
              (main'.pc = "stopped" /\ main'.interrupted)
       /\ (InLoop(main) /\ main'.faults > main.faults) => InLoop(main')
       /\ (main.pc = "sleeping" /\ main'.pc # "sleeping" /\ ~main'.interrupted) =>
              main'.pc = "loop"]_vars

\* an iteration raised before any cycle ran, and the next iteration has
\* entered its cycle
C26_CycleAfterException ==
    /\ main.pc = "cycle"
    /\ cyc.n = 1 /\ cyc.pc = "ticker" /\ cyc.t = 1
    /\ main.faults = 1
    /\ ~main.interrupted

\* C27: within one cycle every ticker and account is decided with the same
\* in-memory model, the one main holds, and the model main holds changes only
\* at the reload check between two cycles (or at start-up)
C27_OneModelPerCycle ==
    [][/\ main'.model # main.model => main.pc \in {"off", "loop"}
       /\ main'.pc = "cycle" =>
              (cyc'.model = main'.model /\ cyc'.used \subseteq {main'.model})]_vars

\* a new version became the latest active one while the cycle was running,
\* and the second ticker has been decided with the model of the cycle
C27_RegistryMovedDuringCycle ==
    /\ main.pc = "cycle"
    /\ cyc.t = 2 /\ cyc.pc = "collected"
    /\ FreshModel.kind # "none" /\ FreshModel # cyc.model
    /\ cyc.used = {cyc.model}

----------------------------------------------------------------------------
(* Properties of the trade store *)

\* the rows of trades whose pnl a step writes with a new value
PnlWritten ==
    {i \in DOMAIN trades' :
        IF i \in DOMAIN trades THEN trades'[i].pnl # trades[i].pnl
        ELSE trades'[i].pnl # 0}

\* the rows of trades a step links to a closing trade
Linked ==
    {i \in DOMAIN trades : trades'[i].sell_trade_id # trades[i].sell_trade_id}

\* row i closed a position: an opening trade points to it
ClosedAPosition(tbl, i) == \E j \in DOMAIN tbl : tbl[j].sell_trade_id = i

\* the opening trade's sell_trade_id is the id of the trade that closes it,
\* the row the step inserts, of the opposite action
LinkPointsToCloser ==
    \A j \in Linked :
        /\ trades'[j].sell_trade_id = Len(trades) + 1
        /\ Len(trades') = Len(trades) + 1
        /\ trades'[Len(trades) + 1].action # trades[j].action

\* C28: a pnl is written only on a trade that closed a position, and the
\* opening trade of a matched pair gets the id of its closing trade in
\* sell_trade_id
C28_PnlOnlyOnClosingTrade ==
    [][/\ \A i \in PnlWritten : ClosedAPosition(trades', i)
       /\ LinkPointsToCloser]_vars

\* the link alone holds in every step of the stores and of the daemon
LinkPointsToCloserAlways == [][LinkPointsToCloser]_vars

\* the open (unmatched) opening trades of a pair on one side: no closing
\* trade is linked to them, and they closed no trade themselves
OpenTrades(tbl, pair, side) ==
    {i \in DOMAIN tbl :
        /\ tbl[i].ticker = DOW_30[pair[1]]
        /\ tbl[i].account_id = Accounts[pair[2]].id
        /\ tbl[i].action = side
        /\ tbl[i].sell_trade_id = 0
        /\ ~ClosedAPosition(tbl, i)}

\* C29: after any sequence of cycles, with position lookups that fail and
\* orders that have not filled, a ticker/account pair has at most one open
\* (unmatched) opening trade per side
C29_OneOpenTradePerSide ==
    \A pair \in Pairs, side \in {"BUY", "SELL"} :
        Cardinality(OpenTrades(trades, pair, side)) <= 1

----------------------------------------------------------------------------
(* Part 7: the /predict endpoint of model_api.py *)

\* requests the service answers in a run
MaxRequests == 2

\* _max_attempts = 3
MaxAttempts == 3

\* "ticker" and "strategy" of the request body, as sent
TickersSent == {"", " ", "aapl"}
StrategiesSent == {"", "Upside Model", "UPSIDE", "momentum"}

\* the frame sanitize_ohlcv returns: its length and its last Close
RowCounts == {14, 15}
LastCloses == {100, 110}

\* (data.get("ticker") or "").strip().upper()
strip_upper(s) == CASE s = "aapl" -> "AAPL" [] s = " " -> "" [] OTHER -> s

\* strategy_raw.lower()
lower(s) == CASE s = "UPSIDE" -> "upside" [] OTHER -> s

STRATEGY_NAME_TO_KEY ==
    [name \in {"Sortino's Model", "Upside Model"} |->
        IF name = "Upside Model" THEN "upside" ELSE "sortino"]

\* STRATEGY_NAME_TO_KEY.get(strategy_raw, strategy_raw.lower() if strategy_raw
\* else "sortino"); anything but sortino and upside is sortino
strategy_key(strategy_raw) ==
    LET key == IF strategy_raw \in DOMAIN STRATEGY_NAME_TO_KEY
               THEN STRATEGY_NAME_TO_KEY[strategy_raw]
               ELSE IF strategy_raw # "" THEN lower(strategy_raw) ELSE "sortino"
    IN  IF key \in {"sortino", "upside"} THEN key ELSE "sortino"

\* model = MODELS.get(strategy) or MODELS.get("sortino"); "none" is None
model_for(MODELS, strategy) ==
    IF strategy \in MODELS THEN strategy
    ELSE IF "sortino" \in MODELS THEN "sortino" ELSE "none"

\* the names model_api.py binds at module level
ModuleGlobals == {"app", "MODEL_DIR", "REQUIRED_COLS", "MODELS", "STRATEGY_NAME_TO_KEY"}

\* what yf.download raises, and whether the handler takes it for a
\* connection failure: by its type, or by a word of its message
DownloadErrors ==
    {[type |-> "ConnectionError", conn_like |-> TRUE, keyword |-> TRUE],
     [type |-> "ValueError", conn_like |-> FALSE, keyword |-> FALSE]}

\* NameError: name 'MODEL' is not defined
NameErrorRaised == [type |-> "NameError", conn_like |-> FALSE, keyword |-> FALSE]

\* except Exception as e: 503 for a connection-like failure, else 500
exception_response(e) ==
    IF e.conn_like \/ e.keyword
    THEN [NoResponse EXCEPT !.status = 503, !.error = "Market data temporarily unavailable"]
    ELSE [NoResponse EXCEPT !.status = 500, !.error = e.type]

\* action_type = "BUY" if action_code == 1 else "SELL"
action_type_of(action_code) == IF action_code = 1 THEN "BUY" ELSE "SELL"

\* load_models() of one strategy: the registry when DATABASE_URL is set, then
\* dow30_<strategy>_model.zip, then, for sortino, dow30_model.zip
load_model(strategy, db_url, strategy_file) ==
    \/ db_url /\ FreshModel.kind # "none"
    \/ strategy_file
    \/ strategy = "sortino" /\ default_file

\* the service starts: load_models() fills MODELS (under gunicorn the module
\* is imported and load_models is not called: MODELS stays empty, the state
\* this action reaches when no file is found)
LoadModels(db_url, sortino_file, upside_file) ==
    /\ api.pc = "start"
    /\ api' = [api EXCEPT
                  !.pc = "ready",
                  !.MODELS = {s \in {"sortino", "upside"} :
                                 load_model(s, db_url,
                                            IF s = "sortino" THEN sortino_file
                                            ELSE upside_file)}]
    /\ UNCHANGED <<regVars, rw, expVars, orchVars, loopVars>>

\* POST /predict up to the download: 400 without a ticker, 503 without a model
PredictRequest(ticker_sent, strategy_raw) ==
    /\ api.pc = "ready"
    /\ api.requests < MaxRequests
    /\ LET ticker   == strip_upper(ticker_sent)
           strategy == strategy_key(strategy_raw)
           model    == model_for(api.MODELS, strategy)
           request  == [ApiIdle EXCEPT !.MODELS = api.MODELS,
                                       !.requests = api.requests + 1,
                                       !.ticker = ticker,
                                       !.strategy = strategy]
       IN  api' =
             IF ticker = ""
             THEN [request EXCEPT !.pc = "ready",
                       !.response = [NoResponse EXCEPT !.status = 400,
                                                       !.error = "ticker required"]]
             ELSE IF model = "none"
             THEN [request EXCEPT !.pc = "ready",
                       !.response = [NoResponse EXCEPT !.status = 503,
                                                       !.error = "model not loaded"]]
             ELSE [request EXCEPT !.pc = "download", !.model = model]
    /\ UNCHANGED <<regVars, rw, expVars, orchVars, loopVars>>

\* a retry that waits one second whatever the attempt
retry_sleep_flat(_attempt) == 1

\* _sleep = 1 + _attempt
retry_sleep(_attempt) == 1 + _attempt

\* one turn of `for _attempt in range(_max_attempts)`: yf.download returns
\* (break), or raises: the last attempt re-raises into the handler of the
\* endpoint, an earlier one sleeps 1 + _attempt seconds
Download(raised) ==
    /\ api.pc = "download"
    /\ api' =
         IF raised = "none"
         THEN [api EXCEPT !.pc = "downloaded", !.attempt = api.attempt + 1]
         ELSE LET e == CHOOSE x \in DownloadErrors : x.type = raised
              IN  IF api.attempt + 1 >= MaxAttempts
                  THEN [api EXCEPT !.pc = "ready", !.attempt = api.attempt + 1,
                                   !.response = exception_response(e)]
                  ELSE [api EXCEPT !.attempt = api.attempt + 1,
                                   !.slept = Append(api.slept, retry_sleep(api.attempt))]
    /\ UNCHANGED <<regVars, rw, expVars, orchVars, loopVars>>

\* df, err = sanitize_ohlcv(raw); if err or df is None or len(df) < 15: 400;
\* else the environment is built and reset
Sanitize(err, rows, close) ==
    /\ api.pc = "downloaded"
    /\ api' =
         IF err \/ rows < 15
         THEN [api EXCEPT !.pc = "ready",
                   !.response = [NoResponse EXCEPT !.status = 400,
                                     !.error = "insufficient or invalid data"]]
         ELSE [api EXCEPT !.pc = "observed", !.rows = rows, !.close = close]
    /\ UNCHANGED <<regVars, rw, expVars, orchVars, loopVars>>

\* action, _ = MODEL.predict(obs, deterministic=True): the name MODEL is
\* looked up in the globals of the module; bound, the inference runs and the
\* response is 200 with the action and the last Close; unbound, NameError is
\* raised into the handler of the endpoint
Infer(action_code) ==
    /\ api.pc = "observed"
    /\ api' =
         IF "MODEL" \in ModuleGlobals
         THEN [api EXCEPT !.pc = "ready",
                   !.inferences = api.inferences + 1,
                   !.action_code = action_code,
                   !.response = [NoResponse EXCEPT !.status = 200,
                                     !.action = action_type_of(action_code),
                                     !.price = api.close]]
         ELSE [api EXCEPT !.pc = "ready",
                   !.response = exception_response(NameErrorRaised)]
    /\ UNCHANGED <<regVars, rw, expVars, orchVars, loopVars>>

----------------------------------------------------------------------------
(* Specification of the model API service *)

\* the registry and the stores are empty; dow30_model.zip may be on disk
InitApi ==
    /\ model_versions = <<>>
    /\ files = {}
    /\ default_file \in BOOLEAN
    /\ clock = 0
    /\ pc = [p \in Writers |-> "idle"]
    /\ tx = [p \in Writers |-> NoTx]
    /\ result = NoResult
    /\ before = [p \in Writers |-> <<>>]
    /\ latest = NoLatest
    /\ rw = NoReward
    /\ StoreUnused

NextApi ==
    \/ \E db_url, sortino_file, upside_file \in BOOLEAN :
          LoadModels(db_url, sortino_file, upside_file)
    \/ \E ticker_sent \in TickersSent, strategy_raw \in StrategiesSent :
          PredictRequest(ticker_sent, strategy_raw)
    \/ \E raised \in {"none"} \cup {e.type : e \in DownloadErrors} : Download(raised)
    \/ \E err \in BOOLEAN, rows \in RowCounts, close \in LastCloses :
          Sanitize(err, rows, close)
    \/ \E action_code \in {0, 1} : Infer(action_code)

ApiSpec == InitApi /\ [][NextApi]_vars

----------------------------------------------------------------------------
(* Properties of the model API service *)

\* the request in hand has been answered
Answered == api.pc = "ready" /\ api.requests > 0

\* C30: a request with a ticker, a loaded model for the strategy asked for
\* and a frame of at least 15 valid rows is answered by one inference, with
\* status 200, action BUY for action code 1 and SELL for 0, and the last
\* Close as price
C30_PredictAnswers ==
    (/\ Answered
     /\ api.ticker # ""
     /\ api.strategy \in api.MODELS
     /\ api.rows >= 15)
        => /\ api.response.status = 200
           /\ api.inferences = 1
           /\ api.response.action = action_type_of(api.action_code)
           /\ api.response.price = api.close

\* C31: a request for a strategy that has no model loaded is answered 503
\* "model not loaded" at the model check, without a download and without an
\* inference, also when a model of another strategy is loaded
C31_NoModelForStrategyIs503 ==
    (/\ api.requests > 0
     /\ api.ticker # ""
     /\ api.strategy \notin api.MODELS)
        => /\ api.pc = "ready"
           /\ api.response.status = 503
           /\ api.response.error = "model not loaded"
           /\ api.attempt = 0
           /\ api.inferences = 0

----------------------------------------------------------------------------
(* Properties of the artifacts *)

\* C32: save_model_version writes the artifact before it commits the row:
\* every committed row of model_versions names an artifact that was written,
\* whatever fails after the write (a file without a row may stay behind)
C32_CommittedRowHasArtifact ==
    \A i \in DOMAIN model_versions : model_versions[i].version_number \in files

\* a save failed after its artifact was written: the file stays without a
\* row, next to a committed version
C32_OrphanedArtifact ==
    /\ result.op = "save" /\ ~result.ok
    /\ model_versions # <<>>
    /\ \E n \in files : RowsOfVersion(model_versions, n) = {}

----------------------------------------------------------------------------
(* Properties of the rewards over time *)

\* C33: once an experience is completed its row never changes again,
\* whatever cycles of the loop and sweeps follow: the reward of an
\* experience is written at most once
C33_CompletedRewardFrozen ==
    [][\A e \in DOMAIN training_experiences :
          training_experiences[e].is_completed =>
              /\ e \in DOMAIN training_experiences'
              /\ training_experiences'[e] = training_experiences[e]]_vars

\* two experiences are completed and a sweep has returned: the one completed
\* first has been through a later close or a later sweep
C33_CompletedThenMoreWrites ==
    /\ sweep.pc = "idle" /\ sweep.runs >= 1
    /\ \E e1, e2 \in DOMAIN training_experiences :
          /\ e1 # e2
          /\ training_experiences[e1].is_completed
          /\ training_experiences[e2].is_completed

----------------------------------------------------------------------------
(* Specification of the orchestrator over the stores *)

\* the registry after one full retrain of sortino, its artifact on disk; the
\* stores empty or holding a linked trade pair whose experience has no reward
InitReconcile ==
    /\ model_versions = <<[version_number |-> 1, strategy |-> "sortino",
                           is_active |-> TRUE, created_at |-> 0,
                           training_type |-> "full_retrain"]>>
    /\ files = {1}
    /\ default_file = FALSE
    /\ clock = 0
    /\ pc = [p \in Writers |-> "idle"]
    /\ tx = [p \in Writers |-> NoTx]
    /\ result = NoResult
    /\ before = [p \in Writers |-> <<>>]
    /\ latest = NoLatest
    /\ rw = NoReward
    /\ \E st \in LegacyStores :
          /\ training_experiences = st.te
          /\ trades = st.tr
    /\ position = NoPosition
    /\ daemon = DaemonIdle
    /\ sweep = SweepIdle
    /\ now = 0
    /\ retrain = RetrainIdle
    /\ LoopUnused

\* the execution loop and the scheduled retrain runs, any interleaving
NextReconcile ==
    \/ \E action \in {"BUY", "SELL"}, ok \in BOOLEAN : CollectExperience(action, ok)
    \/ SkipTrade
    \/ \E price \in Prices, qty \in Quantities : OpenLong(price, qty)
    \/ \E price \in Prices, qty \in Quantities : OpenShort(price, qty)
    \/ \E price \in Prices : CloseLong(price)
    \/ \E price \in Prices : CoverShort(price)
    \/ CloseBackfillFails
    \/ \E s \in Strategies : RetrainDecide(s)
    \/ RetrainSave
    \/ RetrainFails

ReconcileSpec == InitReconcile /\ [][NextReconcile]_vars

----------------------------------------------------------------------------
(* Properties of the orchestrator over the stores *)

\* a run of retrain.py makes its step up to the training decision
RunDecides == retrain'.runs = retrain.runs + 1

\* the experiences a sweep run now would complete
Sweepable(te, tr, strategy) ==
    {e \in Eligible(te, tr) :
        sweep_reward(strategy, SweepRow(te, tr, e).buy_price,
                     SweepRow(te, tr, e).sell_price,
                     SweepRow(te, tr, e).quantity) # Null}

----------------------------------------------------------------------------
(* Properties of the sweep as a safety net *)

\* the sweep commits
SweepCommits == sweep.pc = "updating" /\ sweep'.pc = "idle"

\* the prices and the quantity of the pair are set, as they are in every
\* trade the loop inserts (qty <= 0 is skipped before any order)
PairIsPriced(te, tr, e) ==
    /\ SweepRow(te, tr, e).buy_price # 0
    /\ SweepRow(te, tr, e).sell_price # 0
    /\ SweepRow(te, tr, e).quantity # 0

\* C35: an incomplete experience whose opening trade is linked to its
\* closing trade (the backfill of the loop was missed) is completed, with a
\* reward that is not NULL, when the next sweep commits
C35_SweepCompletesMissedBackfill ==
    [][SweepCommits =>
          \A e \in Eligible(training_experiences, trades) :
              PairIsPriced(training_experiences, trades, e) =>
                  /\ training_experiences'[e].is_completed
                  /\ training_experiences'[e].reward # Null]_vars

\* the first experience, opened and closed before the loop started and left
\* without reward, was completed by a sweep while the loop did a cycle
C35_SweepCaughtUp ==
    /\ sweep.pc = "idle" /\ sweep.runs >= 1
    /\ daemon.cycles >= 1
    /\ Len(training_experiences) >= 1 /\ Len(trades) >= 2
    /\ training_experiences[1].trade_id = 1
    /\ trades[1].sell_trade_id = 2
    /\ trades[1].experience_id = 1
    /\ training_experiences[1].is_completed
    /\ training_experiences[1].reward # Null

----------------------------------------------------------------------------
(* Properties of the hot reload *)

\* the latest active version of the registry, its artifact on disk
ActiveVersionOnDisk == FreshModel.kind = "version"

\* the daemon is about to start an iteration, the reload interval has
\* passed, and the registry's active version is not the model in memory;
\* k cycles have run
StaleAtCheck(k) ==
    /\ main.pc = "loop"
    /\ main.iterations < MaxIterations
    /\ main.due
    /\ ActiveVersionOnDisk
    /\ main.model # FreshModel
    /\ cyc.n = k

\* the daemon holds the active version; or the version's artifact is gone;
\* or every iteration left has raised before a cycle could start
ReloadedOrExcused(k) ==
    \/ ActiveVersionOnDisk /\ main.model = FreshModel
    \/ ~ActiveVersionOnDisk
    \/ main.iterations = MaxIterations /\ cyc.n = k

\* an iteration passes its reload check and enters its cycle
EntersCycle == main.pc = "loop" /\ main'.pc = "cycle"

\* C36: when the registry's active version changes and the market stays
\* open, the daemon comes to use it: the first cycle that starts a reload
\* interval or more after the last successful reload runs with the model
\* get_latest_model returns then, inside the loop; a reload that returns no
\* model leaves the model in memory in use and stays due; before the
\* interval has passed the model is kept
C36_HotReload ==
    /\ [][EntersCycle =>
             /\ (main.due /\ FreshModel.kind # "none") =>
                    (main'.model = FreshModel /\ cyc'.model = FreshModel /\ ~main'.due)
             /\ (main.due /\ FreshModel.kind = "none") =>
                    (main'.model = main.model /\ main'.due)
             /\ ~main.due => main'.model = main.model]_vars
    /\ \A k \in 0 .. MaxIterations : StaleAtCheck(k) ~> ReloadedOrExcused(k)

\* the daemon started on dow30_model.zip and now runs a cycle with the
\* version that was saved to the registry meanwhile
C36_SwappedToNewVersion ==
    /\ main.pc = "cycle"
    /\ main.model.kind = "version"
    /\ main.model = FreshModel
    /\ cyc.model = main.model

----------------------------------------------------------------------------
(* Properties of the download retries *)

\* the waits of a request so far are 1 s, then 2 s
LinearBackoff == \A i \in DOMAIN api.slept : api.slept[i] = i

\* an attempt of the download fails with the exception e
DownloadFails(e) == Download(e.type)

\* C37: the download of a request is attempted at most 3 times; every failed
\* attempt but the third is followed by a wait, 1 s after the first and 2 s
\* after the second; an attempt that succeeds ends the retries; a third
\* failure is not retried and the request is answered 503 for a
\* connection-like error and 500 otherwise
C37_DownloadRetries ==
    /\ [](/\ api.attempt <= MaxAttempts
          /\ Len(api.slept) < MaxAttempts
          /\ LinearBackoff
          /\ api.pc = "download" => Len(api.slept) = api.attempt
          /\ api.pc \in {"downloaded", "observed"} =>
                 Len(api.slept) = api.attempt - 1)
    /\ [][\A e \in DownloadErrors : DownloadFails(e) =>
              IF api.attempt < 2
              THEN /\ api'.pc = "download"
                   /\ api'.slept = Append(api.slept, api.attempt + 1)
              ELSE /\ api'.pc = "ready"
                   /\ api'.attempt = 3
                   /\ api'.slept = api.slept
                   /\ api'.inferences = api.inferences
                   /\ api'.response.status =
                          IF e.conn_like \/ e.keyword THEN 503 ELSE 500]_vars
    /\ [][Download("none") =>
              /\ api'.pc = "downloaded"
              /\ api'.slept = api.slept]_vars

\* a request waited 1 s and 2 s and its third attempt failed on a
\* connection error: 503
C37_ThirdFailureAnswered ==
    /\ api.pc = "ready"
    /\ api.attempt = 3
    /\ api.slept = <<1, 2>>
    /\ api.response.status = 503

----------------------------------------------------------------------------
(* Properties of the market gate *)

\* an iteration of the daemon starts: its first step out of the loop head
IterationStarts == main.pc = "loop" /\ main'.pc \in {"cycle", "sleeping"}

\* C38: a cycle runs only in an iteration that fetched accounts and a clock
\* that reports the market open; an iteration whose clock reports the market
\* closed sleeps until the next open, and from its start to the end of that
\* sleep no order is submitted and no trade or experience is recorded
C38_CycleOnlyWhenOpen ==
    /\ [](main.pc = "cycle" => main.accounts /\ main.market = "open")
    /\ [](cyc.pc # "idle" => main.pc = "cycle")
    /\ [](main.market = "closed" =>
              main.pc = "sleeping" /\ main.sleep = "next_open")
    /\ [][(IterationStarts /\ main'.market # "open") =>
              UNCHANGED <<broker, trades, training_experiences, cyc>>]_vars
    /\ [][main.market = "closed" =>
              UNCHANGED <<broker, trades, training_experiences, cyc>>]_vars

\* after a cycle that traded, an iteration finds the market closed and
\* sleeps until the next open
C38_ClosedAfterTrading ==
    /\ main.market = "closed"
    /\ main.pc = "sleeping" /\ main.sleep = "next_open"
    /\ cyc.n >= 1
    /\ Len(trades) >= 1

----------------------------------------------------------------------------
(* Properties of the two backfills of a covered short *)

\* the loop covers a short position and records the covering BUY
CoversShort ==
    /\ daemon.pc = "collected"
    /\ daemon.action = "BUY"
    /\ position.side = "short"
    /\ Len(trades') = Len(trades) + 1

\* C39: the reward the loop writes on the experience of a short's opening
\* trade when it covers the short is the reward the sweep computes for the
\* same pair of trades (same entry and exit prices)
C39_ShortRewardSameOnBothPaths ==
    [][CoversShort =>
          \A e \in EligibleAll(training_experiences', trades') :
              (/\ ~training_experiences[e].is_completed
               /\ training_experiences'[e].is_completed
               /\ PairIsPriced(training_experiences', trades', e))
                  => LET row == SweepRow(training_experiences', trades', e)
                     IN  RatEq(training_experiences'[e].reward,
                               sweep_reward("sortino", row.buy_price,
                                            row.sell_price, row.quantity))]_vars

----------------------------------------------------------------------------
(* Specification of the stores with a lost opening row *)

\* no position: api.submit_order opens one, then the INSERT INTO trades
\* raises; the except branch of the ticker skips on, the position is held at
\* the broker and no trade row records it
OpenInsertFails(qty) ==
    /\ daemon.pc = "collected"
    /\ position.side = "none"
    /\ position' = [side |-> IF daemon.action = "BUY" THEN "long" ELSE "short",
                    qty |-> qty, opener |-> 0]
    /\ daemon' = [daemon EXCEPT !.pc = "idle", !.experience_id = 0, !.action = "none"]
    /\ UNCHANGED <<api, loopVars, regVars, rw, orchVars, training_experiences, trades, sweep>>

NextMatch ==
    \/ \E action \in {"BUY", "SELL"}, ok \in BOOLEAN : CollectExperience(action, ok)
    \/ SkipTrade
    \/ \E price \in Prices, qty \in Quantities : OpenLong(price, qty)
    \/ \E price \in Prices, qty \in Quantities : OpenShort(price, qty)
    \/ \E qty \in Quantities : OpenInsertFails(qty)
    \/ \E price \in Prices : CloseLong(price)
    \/ \E price \in Prices : CoverShort(price)
    \/ CloseBackfillFails
    \/ \E s \in Strategies : SweepSelect(s)
    \/ SweepUpdate
    \/ SweepCommit

MatchSpec == InitStore /\ [][NextMatch]_vars

----------------------------------------------------------------------------
(* Properties of the matching of a closing trade *)

\* C40: the row a close marks with pnl and link was unmatched, is of the
\* opposite action to the closing row inserted in the same step, and did not
\* itself close an earlier position; a link, once set, never changes
C40_MatchesUnmatchedOpener ==
    [][/\ \A j \in Linked :
              /\ trades[j].sell_trade_id = 0
              /\ trades'[j].sell_trade_id = Len(trades) + 1
              /\ trades'[Len(trades) + 1].action # trades[j].action
              /\ ~ClosedAPosition(trades, j)
       /\ \A i \in DOMAIN trades :
              trades[i].sell_trade_id # 0 =>
                  trades'[i].sell_trade_id = trades[i].sell_trade_id]_vars

\* the part of C40 that holds: a link is written on a row that had none, and
\* a link that is set stays as it is
LinkWrittenOnce ==
    [][/\ \A j \in Linked : trades[j].sell_trade_id = 0
       /\ \A i \in DOMAIN trades :
              trades[i].sell_trade_id # 0 =>
                  trades'[i].sell_trade_id = trades[i].sell_trade_id]_vars

====
